---- MODULE Spec2Model ----
(***************************************************************************)
(* A model of the PullUp exploration and knowledge pipeline:               *)
(*   - ExplorationEngine (lib/explorer.js): the bounded crawl loop,        *)
(*     explorePage and shouldFollowLink;                                   *)
(*   - SkillUpdater (lib/updater.js): mergeKnowledge and countNewPages;    *)
(*   - main() (execute.js) with updateSkill and backupExistingSkill: the   *)
(*     steps of a create or update run on the skill directory.             *)
(* The crawl, the merge and the runs are state machines over disjoint      *)
(* variables; CrawlSpec, MergeSpec and RunSpec run one of them and hold    *)
(* the others still.  AwaitSpec is the crawl await by await, ExtractSpec   *)
(* applies extractPageData and classifyPage to one page, SnapshotSpec      *)
(* updates from snapshots in which two records share a path.               *)
(***************************************************************************)
EXTENDS Integers, Sequences, FiniteSets, TLC

VARIABLES
    \* ---- ExplorationEngine fields (explorer.js:14-33)
    maxDepth,            \* this.maxDepth
    maxPages,            \* this.maxPages
    visited,             \* this.visited, a Set: kept as a sequence in insertion order
    toVisit,             \* this.toVisit, an array of {url, depth}
    discoveredPages,     \* this.discoveredPages
    discoveredForms,     \* this.discoveredForms
    discoveredFlows,     \* this.discoveredFlows
    interactiveElements, \* this.interactiveElements
    \* ---- position of explore() and what its last loop iteration did
    pc,                  \* "created" | "crawling" | "returned"
    explored,            \* the explorePage calls made so far, in order: {url, depth}
    siteLinks,           \* the links extractLinks returned, per page that got that far
    last,                \* the last loop iteration: what was dequeued and what happened
    visits,              \* the explorePage calls that have not returned yet, each
                         \* with the await it is suspended at
    \* ---- SkillUpdater: the persisted app-knowledge.json and the update count
    knowledge,
    updates,
    lastMerge,           \* the arguments of the last mergeKnowledge call
    \* ---- one invocation of the program (execute.js) and what it acts on
    config,              \* the `config` object of main(), handed to the engines
    run,                 \* the position of main(): pc, the phases begun, the error
    disk,                \* the skill directory: its artifacts and its .backups
    now                  \* the wall clock: the date (a day number) and the time of day

crawlVars == <<maxDepth, maxPages, visited, toVisit, discoveredPages, discoveredForms, discoveredFlows,
               interactiveElements, pc, explored, siteLinks, last, visits>>
mergeVars == <<knowledge, updates, lastMerge>>
programVars == <<config, run, disk, now>>
vars == <<maxDepth, maxPages, visited, toVisit, discoveredPages, discoveredForms, discoveredFlows,
          interactiveElements, pc, explored, siteLinks, last, visits,
          knowledge, updates, lastMerge, config, run, disk, now>>

(***************************************************************************)
(* Bounds of the model.                                                    *)
(***************************************************************************)
MaxCfgDepth == 2     \* --max-depth is given a number of 0..MaxCfgDepth, or a word
MaxCfgPages == 3     \* --max-pages is given a number of 0..MaxCfgPages, or a word

(***************************************************************************)
(* Program constants.                                                      *)
(***************************************************************************)
DefaultMaxDepth == 3
DefaultMaxPages == 50

(***************************************************************************)
(* Sequence helpers.                                                       *)
(***************************************************************************)
Range(s) == {s[i] : i \in 1..Len(s)}

Min(a, b) == IF a <= b THEN a ELSE b

\* Set.prototype.add on a Set kept in insertion order
setAdd(s, x) == IF x \in Range(s) THEN s ELSE Append(s, x)

(***************************************************************************)
(* URLs.  A URL is what `new URL(href)` parses it into: hostname, port,    *)
(* pathname and hash.  A pathname is its sequence of tokens: <<>> is "/",  *)
(* <<"a">> is "/a", <<"report", ".PDF">> is "/report.PDF".                 *)
(***************************************************************************)
Url(h, p, path, frag) == [hostname |-> h, port |-> p, pathname |-> path, hash |-> frag]

targetUrl   == Url("app.test", "", <<>>, "")
PageA       == Url("app.test", "", <<"a">>, "")
PageB       == Url("app.test", "", <<"b">>, "")
AnchorOnA   == Url("app.test", "", <<"a">>, "#x")
AnchorOnTop == Url("app.test", "", <<>>, "#top")
ReportPdf   == Url("app.test", "", <<"report", ".PDF">>, "")
OtherPort   == Url("app.test", "8080", <<"b">>, "")
External    == Url("other.test", "", <<"a">>, "")

AllUrls == {targetUrl, PageA, PageB, AnchorOnA, AnchorOnTop, ReportPdf, OtherPort, External}

\* The link lists a page of the site may carry (extractLinks returns them in
\* document order, without duplicates).
LinkLists ==
    { <<>>,
      <<PageA, PageB>>,
      <<PageB, targetUrl, PageA>>,
      <<AnchorOnA, External, ReportPdf>>,
      <<AnchorOnTop, OtherPort, PageA>> }

\* String.prototype.toLowerCase on a fragment of a text (a pathname token, a
\* word or a syllable of a title).
toLowerCase(tok) ==
    CASE tok = ".PDF" -> ".pdf"
      [] tok = ".JPG" -> ".jpg"
      [] tok = "Log" -> "log"
      [] tok = "Sign" -> "sign"
      [] tok = "Dash" -> "dash"
      [] tok = "Account" -> "account"
      [] tok = "Contact" -> "contact"
      [] tok = "About" -> "about"
      [] tok = "List" -> "list"
      [] tok = "Results" -> "results"
      [] OTHER -> tok

skipExtensions == {".pdf", ".jpg", ".jpeg", ".png", ".gif", ".svg", ".zip", ".exe", ".dmg"}

\* linkUrl.pathname.toLowerCase().endsWith(ext) for some ext of skipExtensions
endsWithSkipExtension_CaseSensitive(path) ==
    /\ Len(path) > 0
    /\ path[Len(path)] \in skipExtensions

endsWithSkipExtension(path) ==
    /\ Len(path) > 0
    /\ toLowerCase(path[Len(path)]) \in skipExtensions

\* this.baseDomain = new URL(this.targetUrl).hostname
baseDomain == targetUrl.hostname

\* this.visited.values().next().value || this.targetUrl
firstVisitedOrTarget(vis) == IF Len(vis) > 0 THEN vis[1] ELSE targetUrl

shouldFollowLink_AnyHost(url, vis) ==
    /\ ~endsWithSkipExtension(url.pathname)
    /\ ~(url.pathname = firstVisitedOrTarget(vis).pathname /\ url.hash # "")

shouldFollowLink(url, vis) ==
    /\ url.hostname = baseDomain
    /\ ~endsWithSkipExtension(url.pathname)
    /\ ~(url.pathname = firstVisitedOrTarget(vis).pathname /\ url.hash # "")

(***************************************************************************)
(* Numbers and their texts.  A string is its sequence of characters.       *)
(***************************************************************************)
Digits == <<"0", "1", "2", "3", "4", "5", "6", "7", "8", "9">>

IsDigit(c) == \E d \in 1..Len(Digits) : Digits[d] = c

DigitValue(c) == (CHOOSE d \in 1..Len(Digits) : Digits[d] = c) - 1

\* The value that stands for JavaScript's NaN.
NaN == -1

\* parseInt(str): the number its leading decimal digits spell, NaN without any
RECURSIVE parseDigits(_, _)
parseDigits(str, acc) ==
    IF str = <<>> \/ ~IsDigit(Head(str)) THEN acc
    ELSE parseDigits(Tail(str), acc * 10 + DigitValue(Head(str)))

parseInt(str) == IF str = <<>> \/ ~IsDigit(Head(str)) THEN NaN ELSE parseDigits(str, 0)

\* Number.prototype.toString of a non-negative integer or NaN (as Array.join does)
RECURSIVE numberToString(_)
numberToString(n) ==
    IF n = NaN THEN <<"N", "a", "N">>
    ELSE IF n < 10 THEN <<Digits[n + 1]>>
    ELSE Append(numberToString(n \div 10), Digits[(n % 10) + 1])

(***************************************************************************)
(* The constructor's defaults: config.maxDepth || 3, config.maxPages || 50 *)
(* (0 and NaN are falsy).                                                  *)
(***************************************************************************)
orDefault_ZeroKept(v, d) == IF v = NaN THEN d ELSE v

orDefault(v, d) == IF v = 0 \/ v = NaN THEN d ELSE v

\* The texts given after --max-depth and after --max-pages: a number, or a
\* word that is none.
MaxDepthOptions == {numberToString(n) : n \in 0..MaxCfgDepth} \cup {<<"a", "l", "l">>}

MaxPagesOptions == {numberToString(n) : n \in 0..MaxCfgPages} \cup {<<"a", "l", "l">>}

(***************************************************************************)
(* The `config` object (execute.js:52-63) and the skill directory.         *)
(* null and undefined are Null; a URL option is Null, a parsed URL, or a   *)
(* text `new URL` rejects; an absent name or path is the empty string.     *)
(***************************************************************************)
Null == [null |-> TRUE]

MalformedUrl == [text |-> "myapp.test"]

\* new URL(text) returns (does not throw)
isValidUrl(u) == "hostname" \in DOMAIN u

\* The page paths a documentation reader may hand over as config.hintPages
\* (none, or the page /b).
HintPageLists == {<<>>, <<PageB.pathname>>}

\* The config an ExplorationEngine is constructed with, maxDepth and maxPages
\* as parseArguments() sets them without --max-depth and --max-pages.
EngineConfig(hintPages) ==
    [appName |-> "myapp", targetUrl |-> targetUrl, contextPath |-> "",
     updateMode |-> FALSE, hintPages |-> hintPages,
     maxDepth |-> DefaultMaxDepth, maxPages |-> DefaultMaxPages]

\* const filesToBackup = ['SKILL.md', 'app-knowledge.json', 'test-patterns.js', 'README.md'];
filesToBackup == <<"SKILL.md", "app-knowledge.json", "test-patterns.js", "README.md">>

Artifacts == Range(filesToBackup)

\* A file that does not exist.
Absent == [kind |-> "absent"]

\* A directory without any of the artifacts.
NoFiles == [f \in Artifacts |-> Absent]

\* No skill directory, hence no .backups directory either.
NoSkill == [skillDir |-> FALSE, files |-> NoFiles, backups |-> <<>>]

\* main() has not been started: no phase begun, no error, the skill directory
\* as the invocation found it, the number of invocations so far, whether
\* none of them threw, and process.argv as parseArguments() read it.
NotRunning ==
    [pc |-> "idle", phases |-> <<>>, error |-> "", diskBefore |-> NoSkill,
     n |-> 0, clean |-> TRUE, argv |-> <<>>]

\* new Date(): the start of the first day
Midnight == [date |-> 1, time |-> 0]

\* The program's state where only an engine or only the merge is exercised.
ProgramIdle ==
    /\ run = NotRunning
    /\ disk = NoSkill
    /\ now = Midnight


(***************************************************************************)
(* What the browser returns for a page.  page.goto(...).catch(() => null)  *)
(* yields null (0 here) for a timeout or a navigation error, otherwise a   *)
(* response with a status.  The forms and the interactive elements of a    *)
(* page are fixed by the site; its links are drawn when it is loaded.      *)
(***************************************************************************)
NavResults == {0, 200, 301, 404}

ExtractionSteps == <<"extractPageData", "extractForms", "extractInteractiveElements",
                     "captureScreenshot", "extractLinks">>

StepIndex(step) == CHOOSE i \in 1..Len(ExtractionSteps) : ExtractionSteps[i] = step

\* The steps whose exception reaches explorePage's catch: captureScreenshot
\* catches its own (explorer.js:378-383).
ThrowingSteps == {"extractPageData", "extractForms", "extractInteractiveElements", "extractLinks"}

\* Has explorePage run `step` to its end, when the step that threw is `threw`
\* ("none" when no step threw)?
completed(step, threw) == threw = "none" \/ StepIndex(step) < StepIndex(threw)

\* captureScreenshot(page, pageName): the exception that reaches its caller when
\* page.screenshot (or the mkdir before it) fails.  Its own try/catch swallows
\* the error (explorer.js:378-383), so none does.
captureScreenshot_Rethrows(shotFailed) == IF shotFailed THEN "captureScreenshot" ELSE "none"

captureScreenshot(shotFailed) == "none"

\* if (!response || response.status() >= 400) return;
loadFailed_Only5xx(nav) == nav = 0 \/ nav >= 500

loadFailed(nav) == nav = 0 \/ nav >= 400

\* extractPageData: url and path of the record (the derived fields are not modelled here)
extractPageData(url) == [url |-> url, path |-> url.pathname]

\* extractForms: `form.action || url`; the start page and /a carry one form each
extractForms(url) ==
    IF url.pathname = <<>> THEN <<[formIndex |-> 0, action |-> PageA]>>
    ELSE IF url.pathname = <<"a">> THEN <<[formIndex |-> 0, action |-> url]>>
    ELSE <<>>

\* extractInteractiveElements: one button outside forms on every /b page
extractInteractiveElements(url) ==
    IF url.pathname = <<"b">> THEN <<[type |-> "button", text |-> "more"]>> ELSE <<>>

\* this.discoveredFlows once explorePage has catalogued the forms of a page:
\* explorePage pushes to discoveredPages, discoveredForms and
\* interactiveElements only (explorer.js:134-143), so the flows are as before.
flowsAfterForms_FlowPerForm(flows, forms) ==
    flows \o [i \in 1..Len(forms) |-> [name |-> "submit", steps |-> <<forms[i].action>>]]

flowsAfterForms(flows, forms) == flows

(***************************************************************************)
(* explore(): the crawl loop (explorer.js:59-71)                           *)
(***************************************************************************)
\* while (this.toVisit.length > 0 && this.visited.size < this.maxPages)
loopContinues_OffByOne(q, vis, mp) == Len(q) > 0 /\ Len(vis) <= mp

loopContinues(q, vis, mp) == Len(q) > 0 /\ Len(vis) < mp

\* if (this.visited.has(current.url) || current.depth > this.maxDepth) continue;
skipEntry_NoDepthCheck(cur, vis, md) == cur.url \in Range(vis)

skipEntry_NoVisitedCheck(cur, vis, md) == cur.depth > md

skipEntry_DepthInclusive(cur, vis, md) == cur.url \in Range(vis) \/ cur.depth >= md

skipEntry(cur, vis, md) == cur.url \in Range(vis) \/ cur.depth > md

\* for (const link of links)
\*   if (this.shouldFollowLink(link) && !this.visited.has(link))
\*     this.toVisit.push({ url: link, depth: depth + 1 });
RECURSIVE enqueueLinks_Unshift(_, _, _, _)
enqueueLinks_Unshift(q, links, vis, depth) ==
    IF links = <<>> THEN q
    ELSE LET link == Head(links)
             q2 == IF shouldFollowLink(link, vis) /\ link \notin Range(vis)
                   THEN <<[url |-> link, depth |-> depth + 1]>> \o q
                   ELSE q
         IN enqueueLinks_Unshift(q2, Tail(links), vis, depth)

RECURSIVE enqueueLinks(_, _, _, _)
enqueueLinks(q, links, vis, depth) ==
    IF links = <<>> THEN q
    ELSE LET link == Head(links)
             q2 == IF shouldFollowLink(link, vis) /\ link \notin Range(vis)
                   THEN Append(q, [url |-> link, depth |-> depth + 1])
                   ELSE q
         IN enqueueLinks(q2, Tail(links), vis, depth)

NoVisit == [kind |-> "none", url |-> targetUrl, depth |-> 0, nav |-> 0,
            threw |-> "none", shotFailed |-> FALSE]

NoLinks == [u \in AllUrls |-> <<>>]

\* lastMerge: whether the last step was an update and, if so, what the existing
\* knowledge it read held (its version, its customized pages and its forms) and
\* the fresh analysis it was merged with.
NoMerge == [called |-> FALSE, previousVersion |-> <<>>,
            customPages |-> {}, forms |-> <<>>,
            newAnalysis |-> [pages |-> [none |-> <<>>], forms |-> <<>>, userFlows |-> <<>>]]

\* The state of the SkillUpdater while the crawl runs (it is not involved).
MergeIdle ==
    /\ knowledge = [version |-> <<>>]
    /\ updates = 0
    /\ lastMerge = NoMerge

\* parseArguments() with --max-depth and --max-pages (execute.js:105-112) and
\* constructor(config): explorer.js:14-33
CrawlInit ==
    /\ \E depthText \in MaxDepthOptions, pagesText \in MaxPagesOptions,
          hintPages \in HintPageLists :
          config = [EngineConfig(hintPages) EXCEPT !.maxDepth = parseInt(depthText),
                                                   !.maxPages = parseInt(pagesText)]
    /\ maxDepth = orDefault(config.maxDepth, DefaultMaxDepth)
    /\ maxPages = orDefault(config.maxPages, DefaultMaxPages)
    /\ visited = <<>>
    /\ toVisit = <<>>
    /\ discoveredPages = <<>>
    /\ discoveredForms = <<>>
    /\ discoveredFlows = <<>>
    /\ interactiveElements = <<>>
    /\ pc = "created"
    /\ explored = <<>>
    /\ siteLinks = NoLinks
    /\ last = NoVisit
    /\ visits = {}
    /\ MergeIdle
    /\ ProgramIdle

\* this.toVisit.push({ url: this.targetUrl, depth: 0 });
ExploreStart ==
    /\ pc = "created"
    /\ pc' = "crawling"
    /\ toVisit' = Append(toVisit, [url |-> targetUrl, depth |-> 0])
    /\ UNCHANGED <<maxDepth, maxPages, visited, discoveredPages, discoveredForms, discoveredFlows,
                   interactiveElements, explored, siteLinks, last, visits>>
    /\ UNCHANGED mergeVars
    /\ UNCHANGED programVars

\* One iteration that dequeues an entry and skips it (`continue`).
LoopSkip ==
    /\ pc = "crawling"
    /\ loopContinues(toVisit, visited, maxPages)
    /\ LET current == Head(toVisit) IN
        /\ skipEntry(current, visited, maxDepth)
        /\ toVisit' = Tail(toVisit)
        /\ last' = [kind |-> "skip", url |-> current.url, depth |-> current.depth,
                    nav |-> 0, threw |-> "none", shotFailed |-> FALSE]
    /\ UNCHANGED <<maxDepth, maxPages, visited, discoveredPages, discoveredForms, discoveredFlows,
                   interactiveElements, pc, explored, siteLinks, visits>>
    /\ UNCHANGED mergeVars
    /\ UNCHANGED programVars

\* One iteration that dequeues an entry and runs explorePage(page, url, depth)
\* on it (explorer.js:107-162), the browser answering `nav`, the step `threw`
\* throwing ("none": no step throws), the screenshot failing or not, and the
\* page carrying `links`.
ExplorePage(nav, threw, shotFailed, links) ==
    /\ pc = "crawling"
    /\ loopContinues(toVisit, visited, maxPages)
    /\ LET current == Head(toVisit)
           url     == current.url
           depth   == current.depth
           ok      == ~loadFailed(nav)
           vis2    == setAdd(visited, url)
           \* the step whose exception reaches the catch of explorePage
           raised  == IF completed("captureScreenshot", threw)
                         /\ captureScreenshot(shotFailed) # "none"
                      THEN captureScreenshot(shotFailed) ELSE threw
       IN
        /\ ~skipEntry(current, visited, maxDepth)
        /\ visited' = vis2
        /\ explored' = Append(explored, [url |-> url, depth |-> depth])
        /\ discoveredPages' =
              IF ok /\ completed("extractPageData", raised)
              THEN Append(discoveredPages, extractPageData(url)) ELSE discoveredPages
        /\ discoveredForms' =
              IF ok /\ completed("extractForms", raised)
              THEN discoveredForms \o extractForms(url) ELSE discoveredForms
        /\ discoveredFlows' =
              IF ok /\ completed("extractForms", raised)
              THEN flowsAfterForms(discoveredFlows, extractForms(url))
              ELSE discoveredFlows
        /\ interactiveElements' =
              IF ok /\ completed("extractInteractiveElements", raised)
              THEN interactiveElements \o extractInteractiveElements(url)
              ELSE interactiveElements
        /\ siteLinks' =
              IF ok /\ completed("extractLinks", raised)
              THEN [siteLinks EXCEPT ![url] = links] ELSE siteLinks
        /\ toVisit' =
              IF ok /\ completed("extractLinks", raised)
              THEN enqueueLinks(Tail(toVisit), links, vis2, depth) ELSE Tail(toVisit)
        /\ last' = [kind |-> "visit", url |-> url, depth |-> depth, nav |-> nav,
                    threw |-> IF ok THEN raised ELSE "none",
                    shotFailed |-> ok /\ completed("captureScreenshot", threw) /\ shotFailed]
    /\ UNCHANGED <<maxDepth, maxPages, pc, visits>>
    /\ UNCHANGED mergeVars
    /\ UNCHANGED programVars

\* The page does not load: goto rejects (timeout, navigation error) or the
\* response status is >= 400.
VisitLoadFailed ==
    \E nav \in {n \in NavResults : loadFailed(n)} :
        ExplorePage(nav, "none", FALSE, <<>>)

\* The page loads and one of the extraction steps throws.
VisitThrows ==
    \E nav \in {n \in NavResults : ~loadFailed(n)}, threw \in ThrowingSteps, shot \in BOOLEAN :
        /\ (shot => completed("captureScreenshot", threw))
        /\ ExplorePage(nav, threw, shot, <<>>)

\* The page loads and every step returns.
VisitCompletes ==
    \E nav \in {n \in NavResults : ~loadFailed(n)}, shot \in BOOLEAN, links \in LinkLists :
        ExplorePage(nav, "none", shot, links)

\* The loop condition is false: explore() returns its result.
ExploreReturn ==
    /\ pc = "crawling"
    /\ ~loopContinues(toVisit, visited, maxPages)
    /\ pc' = "returned"
    /\ UNCHANGED <<maxDepth, maxPages, visited, toVisit, discoveredPages, discoveredForms, discoveredFlows,
                   interactiveElements, explored, siteLinks, last, visits>>
    /\ UNCHANGED mergeVars
    /\ UNCHANGED programVars

\* What explore() returns (explorer.js:79-92); duration is left out.
exploreResult ==
    [appName |-> config.appName,
     baseUrl |-> targetUrl,
     pages |-> discoveredPages,
     forms |-> discoveredForms,
     flows |-> discoveredFlows,
     elements |-> interactiveElements,
     statistics |-> [pagesExplored |-> Len(visited),
                     formsFound |-> Len(discoveredForms),
                     flowsIdentified |-> Len(discoveredFlows)]]

\* console.log(`   Flows identified: ${explorationData.flows.length}`): the count
flowsIdentifiedPrinted(explorationResult) == Len(explorationResult.flows)

CrawlNext ==
    \/ ExploreStart
    \/ LoopSkip
    \/ VisitLoadFailed
    \/ VisitThrows
    \/ VisitCompletes
    \/ ExploreReturn

CrawlSpec == CrawlInit /\ [][CrawlNext]_vars

\* Every await of the loop settles (goto has a timeout), so the loop keeps
\* taking steps while one is enabled.
CrawlFairSpec == CrawlInit /\ [][CrawlNext]_vars /\ WF_vars(CrawlNext)

(***************************************************************************)
(* explore() and explorePage() await by await.  Every `await` suspends the *)
(* function that executes it until the awaited promise settles; the code   *)
(* between two awaits runs in one step.  `visits` holds the explorePage    *)
(* calls that have not returned, each with the await it is suspended at.   *)
(***************************************************************************)
\* await this.explorePage(activePage, current.url, current.depth): the loop is
\* suspended while the call it made has not returned (explorer.js:70)
loopSuspended_FireAndForget(calls) == FALSE

loopSuspended(calls) == calls # {}

\* explorePage resumes after an await, at the next one
resumeAt(calls, v, at) == (calls \ {v}) \cup {[v EXCEPT !.at = at]}

\* One loop iteration that dequeues an entry and skips it.
AwaitLoopSkip ==
    /\ ~loopSuspended(visits)
    /\ LoopSkip

\* One loop iteration that dequeues an entry and calls explorePage on it: the
\* call runs up to its first await, page.goto (explorer.js:64-70, 108-121).
CallExplorePage ==
    /\ pc = "crawling"
    /\ ~loopSuspended(visits)
    /\ loopContinues(toVisit, visited, maxPages)
    /\ LET current == Head(toVisit) IN
        /\ ~skipEntry(current, visited, maxDepth)
        /\ toVisit' = Tail(toVisit)
        /\ visited' = setAdd(visited, current.url)
        /\ explored' = Append(explored, [url |-> current.url, depth |-> current.depth])
        /\ visits' = visits \cup {[url |-> current.url, depth |-> current.depth, at |-> "goto"]}
        /\ last' = [kind |-> "visit", url |-> current.url, depth |-> current.depth,
                    nav |-> 0, threw |-> "none", shotFailed |-> FALSE]
    /\ UNCHANGED <<maxDepth, maxPages, discoveredPages, discoveredForms, discoveredFlows,
                   interactiveElements, pc, siteLinks>>
    /\ UNCHANGED mergeVars
    /\ UNCHANGED programVars

\* page.goto settles: explorePage returns on a failed load, else goes on to
\* page.waitForTimeout(1000) (explorer.js:118-131).
GotoSettles ==
    /\ \E v \in visits, nav \in NavResults :
          /\ v.at = "goto"
          /\ visits' = IF loadFailed(nav) THEN visits \ {v}
                        ELSE resumeAt(visits, v, "waitForTimeout")
    /\ UNCHANGED <<maxDepth, maxPages, visited, toVisit, discoveredPages, discoveredForms, discoveredFlows,
                   interactiveElements, pc, explored, siteLinks, last>>
    /\ UNCHANGED mergeVars
    /\ UNCHANGED programVars

\* The wait for dynamic content is over: extractPageData is called.
TimeoutElapses ==
    /\ \E v \in visits :
          /\ v.at = "waitForTimeout"
          /\ visits' = resumeAt(visits, v, "extractPageData")
    /\ UNCHANGED <<maxDepth, maxPages, visited, toVisit, discoveredPages, discoveredForms, discoveredFlows,
                   interactiveElements, pc, explored, siteLinks, last>>
    /\ UNCHANGED mergeVars
    /\ UNCHANGED programVars

\* An awaited extraction rejects: the catch of explorePage takes it and the
\* call returns (explorer.js:157-161).
AwaitThrows ==
    /\ \E v \in visits :
          /\ v.at \in ThrowingSteps
          /\ visits' = visits \ {v}
    /\ UNCHANGED <<maxDepth, maxPages, visited, toVisit, discoveredPages, discoveredForms, discoveredFlows,
                   interactiveElements, pc, explored, siteLinks, last>>
    /\ UNCHANGED mergeVars
    /\ UNCHANGED programVars

\* extractPageData resolves: the record is pushed, extractForms is called.
PageDataExtracted ==
    /\ \E v \in visits :
          /\ v.at = "extractPageData"
          /\ discoveredPages' = Append(discoveredPages, extractPageData(v.url))
          /\ visits' = resumeAt(visits, v, "extractForms")
    /\ UNCHANGED <<maxDepth, maxPages, visited, toVisit, discoveredForms, discoveredFlows,
                   interactiveElements, pc, explored, siteLinks, last>>
    /\ UNCHANGED mergeVars
    /\ UNCHANGED programVars

\* extractForms resolves: the forms are pushed, extractInteractiveElements is called.
FormsExtracted ==
    /\ \E v \in visits :
          /\ v.at = "extractForms"
          /\ discoveredForms' = discoveredForms \o extractForms(v.url)
          /\ discoveredFlows' = flowsAfterForms(discoveredFlows, extractForms(v.url))
          /\ visits' = resumeAt(visits, v, "extractInteractiveElements")
    /\ UNCHANGED <<maxDepth, maxPages, visited, toVisit, discoveredPages,
                   interactiveElements, pc, explored, siteLinks, last>>
    /\ UNCHANGED mergeVars
    /\ UNCHANGED programVars

\* extractInteractiveElements resolves: the elements are pushed,
\* captureScreenshot is called.
ElementsExtracted ==
    /\ \E v \in visits :
          /\ v.at = "extractInteractiveElements"
          /\ interactiveElements' = interactiveElements \o extractInteractiveElements(v.url)
          /\ visits' = resumeAt(visits, v, "captureScreenshot")
    /\ UNCHANGED <<maxDepth, maxPages, visited, toVisit, discoveredPages, discoveredForms, discoveredFlows,
                   pc, explored, siteLinks, last>>
    /\ UNCHANGED mergeVars
    /\ UNCHANGED programVars

\* captureScreenshot returns, the capture made or not: extractLinks is called.
ScreenshotSettles ==
    /\ \E v \in visits, shotFailed \in BOOLEAN :
          /\ v.at = "captureScreenshot"
          /\ captureScreenshot(shotFailed) = "none"
          /\ visits' = resumeAt(visits, v, "extractLinks")
    /\ UNCHANGED <<maxDepth, maxPages, visited, toVisit, discoveredPages, discoveredForms, discoveredFlows,
                   interactiveElements, pc, explored, siteLinks, last>>
    /\ UNCHANGED mergeVars
    /\ UNCHANGED programVars

\* extractLinks resolves: the links are enqueued and explorePage returns.
LinksExtracted ==
    /\ \E v \in visits, links \in LinkLists :
          /\ v.at = "extractLinks"
          /\ siteLinks' = [siteLinks EXCEPT ![v.url] = links]
          /\ toVisit' = enqueueLinks(toVisit, links, visited, v.depth)
          /\ visits' = visits \ {v}
    /\ UNCHANGED <<maxDepth, maxPages, visited, discoveredPages, discoveredForms, discoveredFlows,
                   interactiveElements, pc, explored, last>>
    /\ UNCHANGED mergeVars
    /\ UNCHANGED programVars

\* The loop condition is false: explore() returns its result.
AwaitExploreReturn ==
    /\ ~loopSuspended(visits)
    /\ ExploreReturn

AwaitNext ==
    \/ ExploreStart
    \/ AwaitLoopSkip
    \/ CallExplorePage
    \/ GotoSettles
    \/ TimeoutElapses
    \/ AwaitThrows
    \/ PageDataExtracted
    \/ FormsExtracted
    \/ ElementsExtracted
    \/ ScreenshotSettles
    \/ LinksExtracted
    \/ AwaitExploreReturn

AwaitSpec == CrawlInit /\ [][AwaitNext]_vars


(***************************************************************************)
(* ====================  SkillUpdater (lib/updater.js)  ================== *)
(***************************************************************************)

(***************************************************************************)
(* Version strings.                                                        *)
(***************************************************************************)
\* String.prototype.split('.')
RECURSIVE split(_)
split(str) ==
    IF \A i \in 1..Len(str) : str[i] # "."
    THEN <<str>>
    ELSE LET i == CHOOSE k \in 1..Len(str) :
                      str[k] = "." /\ \A j \in 1..(k - 1) : str[j] # "."
         IN <<SubSeq(str, 1, i - 1)>> \o split(SubSeq(str, i + 1, Len(str)))

\* Array.prototype.join('.') of an array of strings
RECURSIVE join(_)
join(parts) ==
    IF parts = <<>> THEN <<>>
    ELSE IF Len(parts) = 1 THEN parts[1]
    ELSE parts[1] \o <<".">> \o join(Tail(parts))

\* parseInt(versionParts[1]) + 1
incrementPart(str) == IF parseInt(str) = NaN THEN NaN ELSE parseInt(str) + 1

\* const versionParts = existing.version.split('.');
\* versionParts[1] = parseInt(versionParts[1]) + 1;
\* merged.version = versionParts.join('.');
bumpVersion_Patch(version) ==
    LET versionParts == split(version) IN
    IF Len(versionParts) < 3
    THEN join(<<versionParts[1], numberToString(NaN)>>)
    ELSE join([versionParts EXCEPT ![3] = numberToString(incrementPart(versionParts[3]))])

bumpVersion(version) ==
    LET versionParts == split(version) IN
    IF Len(versionParts) < 2
    THEN join(<<versionParts[1], numberToString(NaN)>>)
    ELSE join([versionParts EXCEPT ![2] = numberToString(incrementPart(versionParts[2]))])

(***************************************************************************)
(* AnalysisEngine: the part of analyze() the merge reads.                  *)
(***************************************************************************)
Categories == {"authentication", "content", "forms", "lists", "details", "other"}

\* categorizePage(page)
categorizePage(page, forms) ==
    IF page.pageType \in {"login", "signup"} THEN "authentication"
    ELSE IF page.pageType = "list" THEN "lists"
    ELSE IF page.pageType = "detail" THEN "details"
    ELSE IF page.pageType \in {"homepage", "about", "contact"} THEN "content"
    ELSE IF \E i \in 1..Len(forms) : forms[i].action.pathname = page.url.pathname THEN "forms"
    ELSE "other"

RECURSIVE pagesOfCategory(_, _, _)
pagesOfCategory(pages, forms, category) ==
    IF pages = <<>> THEN <<>>
    ELSE LET page == Head(pages)
             rest == pagesOfCategory(Tail(pages), forms, category)
         IN IF categorizePage(page, forms) = category
            THEN <<[url |-> page.url, path |-> page.path, type |-> page.pageType,
                    customData |-> ""]>> \o rest
            ELSE rest

\* analyzePagesStructure()
analyzePagesStructure(data) ==
    [category \in Categories |-> pagesOfCategory(data.pages, data.forms, category)]

\* generateFormTestData(form): the login form (action /a) has an email field,
\* every other form of the model a text field named q (`test_${fieldName}`)
generateFormTestData(form) ==
    IF form.action.pathname = PageA.pathname THEN "test@example.com" ELSE "test_q"

\* analyzeFormsPatterns(): one analysis per form, in order
analyzeFormsPatterns(data) ==
    [i \in 1..Len(data.forms) |->
        [action |-> data.forms[i].action,
         testData |-> generateFormTestData(data.forms[i]),
         customTestData |-> ""]]

\* identifyUserFlows(): the login flow (a login page and a dashboard page); the
\* pages and forms of the model yield none of the other canned flows
identifyUserFlows(data) ==
    IF /\ \E i \in 1..Len(data.pages) : data.pages[i].pageType = "login"
       /\ \E i \in 1..Len(data.pages) : data.pages[i].pageType = "dashboard"
    THEN <<"Login Flow">>
    ELSE <<>>

\* analyze()
analyze(data) ==
    [baseUrl |-> data.baseUrl,
     pages |-> analyzePagesStructure(data),
     forms |-> analyzeFormsPatterns(data),
     userFlows |-> identifyUserFlows(data)]

(***************************************************************************)
(* mergeKnowledge(existing, newAnalysis).  customData / customTestData: "" *)
(* stands for an absent (undefined) property.                              *)
(***************************************************************************)
\* new URL(f.action).pathname
formPath(f) == f.action.pathname

\* existingMap.get(newPage.path) after existingPages.forEach(p => existingMap.set(p.path, p)):
\* the last existing page of the category with that path
hasExistingPage(existingPages, path) == \E i \in 1..Len(existingPages) : existingPages[i].path = path

existingMapGet(existingPages, path) ==
    existingPages[CHOOSE i \in 1..Len(existingPages) :
                     /\ existingPages[i].path = path
                     /\ \A j \in (i + 1)..Len(existingPages) : existingPages[j].path # path]

\* newPages.forEach(newPage => { ... newPage.customData = existingPage.customData })
mergeCategory(existingPages, newPages) ==
    [i \in 1..Len(newPages) |->
        IF /\ hasExistingPage(existingPages, newPages[i].path)
           /\ existingMapGet(existingPages, newPages[i].path).customData # ""
        THEN [newPages[i] EXCEPT
                 !.customData = existingMapGet(existingPages, newPages[i].path).customData]
        ELSE newPages[i]]

\* for (const category in merged.pages) { existing.pages[category] || [] ... }
mergePages_KeepDropped(existing, newAnalysis) ==
    [category \in DOMAIN newAnalysis.pages |->
        LET existingPages == IF category \in DOMAIN existing.pages
                             THEN existing.pages[category] ELSE <<>>
            newPages == newAnalysis.pages[category]
        IN mergeCategory(existingPages, newPages)
             \o SelectSeq(existingPages, LAMBDA p : ~hasExistingPage(newPages, p.path))]

mergePages(existing, newAnalysis) ==
    [category \in DOMAIN newAnalysis.pages |->
        mergeCategory(IF category \in DOMAIN existing.pages
                      THEN existing.pages[category] ELSE <<>>,
                      newAnalysis.pages[category])]

\* Array.from(new Set(forms.map(f => new URL(f.action).pathname))): the distinct
\* paths in order of first occurrence
RECURSIVE distinctFormPaths(_)
distinctFormPaths(forms) ==
    IF forms = <<>> THEN <<>>
    ELSE LET init == distinctFormPaths(SubSeq(forms, 1, Len(forms) - 1))
             path == formPath(forms[Len(forms)])
         IN IF path \in Range(init) THEN init ELSE Append(init, path)

\* merged.removedForms
removedForms_Unfiltered(existing, newAnalysis) == distinctFormPaths(existing.forms)

removedForms(existing, newAnalysis) ==
    LET newFormPaths == {formPath(newAnalysis.forms[i]) : i \in 1..Len(newAnalysis.forms)}
    IN SelectSeq(distinctFormPaths(existing.forms), LAMBDA path : path \notin newFormPaths)

\* existing.forms.find(f => pathname(f.action) === pathname(newForm.action)): the first match
hasExistingForm(existingForms, newForm) ==
    \E i \in 1..Len(existingForms) : formPath(existingForms[i]) = formPath(newForm)

findExistingForm(existingForms, newForm) ==
    existingForms[CHOOSE i \in 1..Len(existingForms) :
                     /\ formPath(existingForms[i]) = formPath(newForm)
                     /\ \A j \in 1..(i - 1) : formPath(existingForms[j]) # formPath(newForm)]

\* merged.forms.forEach(newForm => { ... newForm.customTestData = existingForm.customTestData })
mergeForms(existingForms, newForms) ==
    [i \in 1..Len(newForms) |->
        IF /\ hasExistingForm(existingForms, newForms[i])
           /\ findExistingForm(existingForms, newForms[i]).customTestData # ""
        THEN [newForms[i] EXCEPT
                 !.customTestData = findExistingForm(existingForms, newForms[i]).customTestData]
        ELSE newForms[i]]

\* Object.values(k.pages).flat(): the pages of all categories (as a set of records)
allPages(k) == UNION {Range(k.pages[category]) : category \in DOMAIN k.pages}

\* countNewPages(existing, merged)
countNewPages(existing, mergedPages) ==
    LET existingPaths == {p.path : p \in allPages(existing)}
        count(category) ==
            Len(SelectSeq(mergedPages[category], LAMBDA p : p.path \notin existingPaths))
        RECURSIVE sum(_)
        sum(S) == IF S = {} THEN 0
                  ELSE LET c == CHOOSE x \in S : TRUE IN count(c) + sum(S \ {c})
    IN sum(DOMAIN mergedPages)

\* merged.updateHistory = existing.updateHistory || []; merged.updateHistory.push(entry)
updateHistoryPush_Unshift(history, entry) == <<entry>> \o history

updateHistoryPush(history, entry) == Append(history, entry)

mergeKnowledge(existing, newAnalysis) ==
    LET version == bumpVersion(existing.version)
        pages   == mergePages(existing, newAnalysis)
        forms   == mergeForms(existing.forms, newAnalysis.forms)
    IN [baseUrl |-> newAnalysis.baseUrl,
        version |-> version,
        pages |-> pages,
        forms |-> forms,
        userFlows |-> newAnalysis.userFlows,
        removedForms |-> removedForms(existing, newAnalysis),
        updateHistory |-> updateHistoryPush(existing.updateHistory,
            [previousVersion |-> existing.version,
             newVersion |-> version,
             pagesAdded |-> countNewPages(existing, pages),
             formsAdded |-> Len(forms) - Len(existing.forms),
             flowsAdded |-> Len(newAnalysis.userFlows) - Len(existing.userFlows)])]

(***************************************************************************)
(* The update runs.                                                        *)
(***************************************************************************)
MaxUpdates == 2      \* update runs per behaviour

\* What one exploration of the application may return: which of its pages were
\* recorded (/a is its login page, /b its dashboard) and the forms found (by
\* action URL).
SnapshotPages == <<[url |-> PageA, path |-> PageA.pathname, pageType |-> "login"],
                   [url |-> PageB, path |-> PageB.pathname, pageType |-> "dashboard"]>>

PageLists == {<<>>, <<SnapshotPages[1]>>, <<SnapshotPages[2]>>, SnapshotPages}

\* no form; one form on /b; the login form and a form on /b; two forms that
\* share the action /b
FormLists ==
    { <<>>,
      <<[action |-> PageB]>>,
      <<[action |-> PageA], [action |-> PageB]>>,
      <<[action |-> PageB], [action |-> PageB]>> }

Explorations ==
    [baseUrl : {targetUrl}, pages : PageLists, forms : FormLists]

\* The version of a created skill.
InitialVersion == <<"1", ".", "0", ".", "0">>

CustomDataValues == {"c1"}
CustomTestDataValues == {"t1"}
EditedTestDataValues == {"operator@example.com"}

\* The knowledge a create run persists: the analysis under an initial version.
createdKnowledge(analysis, version) ==
    [baseUrl |-> analysis.baseUrl,
     version |-> version,
     pages |-> analysis.pages,
     forms |-> analysis.forms,
     userFlows |-> analysis.userFlows,
     removedForms |-> <<>>,
     updateHistory |-> <<>>]

\* The state of the ExplorationEngine while updates run (each update makes its
\* own engine; its result is the exploration the update draws).
CrawlIdle ==
    /\ maxDepth = DefaultMaxDepth
    /\ maxPages = DefaultMaxPages
    /\ visited = <<>>
    /\ toVisit = <<>>
    /\ discoveredPages = <<>>
    /\ discoveredForms = <<>>
    /\ discoveredFlows = <<>>
    /\ interactiveElements = <<>>
    /\ pc = "created"
    /\ explored = <<>>
    /\ siteLinks = NoLinks
    /\ last = NoVisit
    /\ visits = {}

MergeInit ==
    /\ \E data \in Explorations :
          knowledge = createdKnowledge(analyze(data), InitialVersion)
    /\ updates = 0
    /\ lastMerge = NoMerge
    /\ CrawlIdle
    /\ config = EngineConfig(<<>>)
    /\ ProgramIdle

\* The operator adds customData to a page of app-knowledge.json.
OperatorCustomizesPage ==
    /\ \E category \in DOMAIN knowledge.pages :
       \E i \in 1..Len(knowledge.pages[category]), value \in CustomDataValues :
          /\ knowledge.pages[category][i].customData = ""
          /\ knowledge' = [knowledge EXCEPT !.pages[category][i].customData = value]
    /\ lastMerge' = NoMerge
    /\ UNCHANGED updates
    /\ UNCHANGED crawlVars
    /\ UNCHANGED programVars

\* The operator adds customTestData to a form of app-knowledge.json.
OperatorCustomizesForm ==
    /\ \E i \in 1..Len(knowledge.forms), value \in CustomTestDataValues :
          /\ knowledge.forms[i].customTestData = ""
          /\ knowledge' = [knowledge EXCEPT !.forms[i].customTestData = value]
    /\ lastMerge' = NoMerge
    /\ UNCHANGED updates
    /\ UNCHANGED crawlVars
    /\ UNCHANGED programVars

\* The operator edits the generated test data of a form in app-knowledge.json.
OperatorEditsTestData ==
    /\ \E i \in 1..Len(knowledge.forms), value \in EditedTestDataValues :
          /\ knowledge.forms[i].testData # value
          /\ knowledge' = [knowledge EXCEPT !.forms[i].testData = value]
    /\ lastMerge' = NoMerge
    /\ UNCHANGED updates
    /\ UNCHANGED crawlVars
    /\ UNCHANGED programVars

\* generator.generate(): app-knowledge.json is written from the merged analysis
generate(mergedAnalysis) == mergedAnalysis

\* updateSkill(): read the existing knowledge, re-explore (the exploration
\* returns `data`), analyze, merge and persist the merged knowledge.
Update(data) ==
    /\ updates < MaxUpdates
    /\ knowledge' = generate(mergeKnowledge(knowledge, analyze(data)))
    /\ updates' = updates + 1
    /\ lastMerge' =
          [called |-> TRUE,
           previousVersion |-> knowledge.version,
           customPages |-> {[path |-> p.path, customData |-> p.customData] :
                               p \in {q \in allPages(knowledge) : q.customData # ""}},
           forms |-> knowledge.forms,
           newAnalysis |-> analyze(data)]
    /\ UNCHANGED crawlVars
    /\ UNCHANGED programVars

UpdateSkill == \E data \in Explorations : Update(data)

MergeNext ==
    \/ OperatorCustomizesPage
    \/ OperatorCustomizesForm
    \/ OperatorEditsTestData
    \/ UpdateSkill

MergeSpec == MergeInit /\ [][MergeNext]_vars

(***************************************************************************)
(* Updates of an application that does not change, from a skill of any     *)
(* semantic version major.minor.patch.                                     *)
(***************************************************************************)
MaxVersionPart == 11     \* major, minor and patch are drawn from 0..MaxVersionPart

versionString(major, minor, patch) ==
    join(<<numberToString(major), numberToString(minor), numberToString(patch)>>)

UnchangedApp ==
    [baseUrl |-> targetUrl, pages |-> SnapshotPages, forms |-> <<[action |-> PageA]>>]

VersionInit ==
    /\ \E major, minor, patch \in 0..MaxVersionPart :
          knowledge = createdKnowledge(analyze(UnchangedApp),
                                       versionString(major, minor, patch))
    /\ updates = 0
    /\ lastMerge = NoMerge
    /\ CrawlIdle
    /\ config = EngineConfig(<<>>)
    /\ ProgramIdle

UpdateUnchangedApp == Update(UnchangedApp)

VersionSpec == VersionInit /\ [][UpdateUnchangedApp]_vars

(***************************************************************************)
(* Updates from any snapshot an exploration can return.  The crawl visits  *)
(* /a and /a#x as two URLs (its visited set holds URLs, not paths), so a   *)
(* snapshot may hold two PageRecords of one path.                          *)
(***************************************************************************)
RevisitedPages ==
    <<SnapshotPages[1],
      [url |-> AnchorOnA, path |-> AnchorOnA.pathname, pageType |-> "login"]>>

Snapshots ==
    [baseUrl : {targetUrl}, pages : PageLists \cup {RevisitedPages}, forms : FormLists]

SnapshotInit ==
    /\ \E data \in Snapshots :
          knowledge = createdKnowledge(analyze(data), InitialVersion)
    /\ updates = 0
    /\ lastMerge = NoMerge
    /\ CrawlIdle
    /\ config = EngineConfig(<<>>)
    /\ ProgramIdle

UpdateFromSnapshot == \E data \in Snapshots : Update(data)

SnapshotSpec == SnapshotInit /\ [][UpdateFromSnapshot]_vars


(***************************************************************************)
(* ====================  main() (execute.js:240-348)  ==================== *)
(* One invocation of the program after another on one skill directory.     *)
(* Playwright is installed.  The exploration of a run is the crawl above;  *)
(* here it either returns the application's snapshot or throws.            *)
(***************************************************************************)
MaxRuns == 2     \* invocations of the program per behaviour
MaxDays == 2     \* the invocations fall on the days 1..MaxDays

\* The command lines: --name, --url, --docs, --update given or not.
Arguments ==
    [appName : {"", "myapp"},
     targetUrl : {Null, targetUrl, MalformedUrl},
     contextPath : {"", "app-info.md", "notes.md", "missing.md"},
     updateMode : BOOLEAN,
     hintPages : {<<>>}]

\* parseArguments() without any option
NoArguments ==
    [appName |-> "", targetUrl |-> Null, contextPath |-> "", updateMode |-> FALSE,
     hintPages |-> <<>>]

\* validateConfig(config): the message it prints, "" when it returns true
validationError(cfg) ==
    IF cfg.appName = ""
    THEN "Application name is required (use --name)"
    ELSE IF cfg.targetUrl = Null /\ ~cfg.updateMode /\ cfg.contextPath = ""
    THEN "Application URL is required (use --url or provide via --docs)"
    ELSE IF cfg.targetUrl # Null /\ ~isValidUrl(cfg.targetUrl)
    THEN "Invalid URL"
    ELSE ""

validateConfig_NoUrlCheck(cfg) ==
    /\ cfg.appName # ""
    /\ ~(cfg.targetUrl = Null /\ ~cfg.updateMode /\ cfg.contextPath = "")

validateConfig(cfg) == validationError(cfg) = ""

\* readContext(contextPath): fs.existsSync(absolutePath)
contextExists(path) == path # "missing.md"

\* readContext(contextPath).parsedData: app-info.md names one URL (DocsUrl) and
\* the page /b, notes.md names no URL and no page
DocsUrl == Url("docs.test", "", <<>>, "")

readContext(path) ==
    IF path = "app-info.md"
    THEN [urls |-> <<DocsUrl>>, pages |-> <<PageB.pathname>>]
    ELSE [urls |-> <<>>, pages |-> <<>>]

\* mergeWithConfig(config, contextData)
mergeWithConfig(cfg, parsedData) ==
    LET merged == IF cfg.targetUrl = Null /\ Len(parsedData.urls) > 0
                  THEN [cfg EXCEPT !.targetUrl = parsedData.urls[1]]
                  ELSE cfg
    IN IF Len(parsedData.pages) > 0
       THEN [merged EXCEPT !.hintPages = parsedData.pages]
       ELSE merged

\* `config = value` where config was declared `const config` (execute.js:252):
\* the assignment throws a TypeError and the binding keeps its value
assignToConst(binding, value) ==
    [value |-> binding, error |-> "Assignment to constant variable."]

\* The steps of a create run (execute.js:310-330) and of updateSkill()
\* (updater.js:28-77), in program order.
createSteps == <<"explore", "analyze", "generate">>

updateSteps_GenerateBeforeBackup ==
    <<"load", "explore", "analyze", "merge", "generate", "backup">>

updateSteps == <<"load", "explore", "analyze", "merge", "backup", "generate">>

stepsOf(cfg) == IF cfg.updateMode THEN updateSteps ELSE createSteps

\* The step main() takes next; run.pc is the step it completed last.
nextStep(cfg, r) ==
    LET steps == stepsOf(cfg) IN
    IF r.pc = "configured" \/ (r.pc = "validated" /\ cfg.contextPath = "")
    THEN steps[1]
    ELSE IF \E i \in 1..(Len(steps) - 1) : steps[i] = r.pc
    THEN steps[(CHOOSE i \in 1..(Len(steps) - 1) : steps[i] = r.pc) + 1]
    ELSE "none"

\* The step returned: main() goes on, or is done after the last step.
completedStep(cfg, r, step) ==
    [r EXCEPT !.pc = IF step = stepsOf(cfg)[Len(stepsOf(cfg))] THEN "done" ELSE step,
              !.phases = Append(@, step)]

\* The step threw: main() catches, prints the message and calls process.exit(1).
failedStep(r, step, message) ==
    [r EXCEPT !.pc = "exit1", !.phases = Append(@, step), !.error = message,
              !.clean = FALSE]

\* What explorer.explore() returns for the application (baseUrl: this.targetUrl).
explorationData(cfg) == [UnchangedApp EXCEPT !.baseUrl = cfg.targetUrl]

\* existingKnowledge.baseUrl
baseUrlOf(doc) == IF "baseUrl" \in DOMAIN doc THEN doc.baseUrl ELSE Null

\* if (!this.config.targetUrl) this.config.targetUrl = existingKnowledge.baseUrl
existingUrlFallback_StoredWins(cfg, existing) ==
    [cfg EXCEPT !.targetUrl = baseUrlOf(existing)]

existingUrlFallback(cfg, existing) ==
    IF cfg.targetUrl = Null
    THEN [cfg EXCEPT !.targetUrl = baseUrlOf(existing)]
    ELSE cfg

\* mergeKnowledge throws a TypeError when it reads a property of an undefined
\* version, pages, forms or userFlows of the existing knowledge
mergeThrows(existing) ==
    ~({"version", "pages", "forms", "userFlows"} \subseteq DOMAIN existing)

\* new Date().toISOString().replace(/[:.]/g, '-').split('T')[0]: the date, the
\* time of day is cut off
backupTimestamp(clock) == clock.date

\* The directory .backups/backup-<name>, empty when it does not exist.
backupDir(backups, name) == IF name \in DOMAIN backups THEN backups[name] ELSE NoFiles

\* filesToBackup.forEach: copyFileSync of the first k files of the list, those
\* that exist, over what the backup directory holds
copyFiles(dir, files, k) ==
    [f \in Artifacts |->
        IF files[f] # Absent /\ \E i \in 1..k : filesToBackup[i] = f
        THEN files[f] ELSE dir[f]]

\* The artifact the generator writes under the name f from the knowledge `doc`.
artifact(f, doc) ==
    IF f = "app-knowledge.json"
    THEN [kind |-> "json", doc |-> generate(doc)]
    ELSE [kind |-> "generated", version |-> doc.version]

\* The generator has written the first k of the four artifacts.
writeFiles(files, doc, k) ==
    [f \in Artifacts |->
        IF \E i \in 1..k : filesToBackup[i] = f THEN artifact(f, doc) ELSE files[f]]

\* A skill directory as a create run leaves it, around a given app-knowledge.json.
skillWith(knowledgeFile, version) ==
    [skillDir |-> TRUE,
     files |-> [f \in Artifacts |->
                  IF f = "app-knowledge.json" THEN knowledgeFile
                  ELSE [kind |-> "generated", version |-> version]],
     backups |-> <<>>]

\* The skill directories an invocation may find: none; an empty one; a created
\* skill; one whose app-knowledge.json is not JSON; one whose app-knowledge.json
\* is JSON cut down to its first property; one whose version is not a semantic
\* version; a skill created from the URL of the documentation.
InitialDisks ==
    { NoSkill,
      [skillDir |-> TRUE, files |-> NoFiles, backups |-> <<>>],
      skillWith([kind |-> "json",
                 doc |-> createdKnowledge(analyze(UnchangedApp), InitialVersion)],
                InitialVersion),
      skillWith([kind |-> "garbage"], InitialVersion),
      skillWith([kind |-> "json", doc |-> [appName |-> "myapp"]], InitialVersion),
      skillWith([kind |-> "json",
                 doc |-> createdKnowledge(analyze(UnchangedApp), <<"1">>)],
                <<"1">>),
      skillWith([kind |-> "json",
                 doc |-> createdKnowledge(
                            analyze([UnchangedApp EXCEPT !.baseUrl = DocsUrl]),
                            InitialVersion)],
                InitialVersion) }

RunInit ==
    /\ disk \in InitialDisks
    /\ config = NoArguments
    /\ run = NotRunning
    /\ now = Midnight
    /\ CrawlIdle
    /\ MergeIdle

\* main() up to its first await: parseArguments and validateConfig
Main(args) ==
    /\ run.pc \in {"idle", "done", "exit1"}
    /\ run.n < MaxRuns
    /\ config' = args
    /\ run' = [pc |-> IF validateConfig(args) THEN "validated" ELSE "exit1",
               phases |-> <<>>,
               error |-> IF validateConfig(args) THEN "" ELSE validationError(args),
               diskBefore |-> disk,
               n |-> run.n + 1,
               clean |-> run.clean,
               argv |-> args]
    /\ now' = [now EXCEPT !.time = @ + 1]
    /\ UNCHANGED <<disk, crawlVars, mergeVars>>

\* if (config.contextPath) { ... config = contextReader.mergeWithConfig(...) }
ReadContext ==
    /\ run.pc = "validated"
    /\ config.contextPath # ""
    /\ LET assigned == assignToConst(config,
                           mergeWithConfig(config, readContext(config.contextPath)))
       IN IF ~contextExists(config.contextPath)
          THEN /\ run' = failedStep(run, "readContext", "Context path not found")
               /\ config' = config
          ELSE IF assigned.error # ""
          THEN /\ run' = failedStep(run, "readContext", assigned.error)
               /\ config' = assigned.value
          ELSE /\ run' = [run EXCEPT !.pc = "configured",
                                     !.phases = Append(@, "readContext")]
               /\ config' = assigned.value
    /\ UNCHANGED <<disk, now, crawlVars, mergeVars>>

\* updateSkill(): the existence checks, JSON.parse and the URL fallback
UpdateLoad ==
    /\ nextStep(config, run) = "load"
    /\ LET file == disk.files["app-knowledge.json"] IN
       IF ~disk.skillDir
       THEN /\ run' = failedStep(run, "load",
                         "Skill not found. Create it first with --name and --url")
            /\ UNCHANGED <<knowledge, config>>
       ELSE IF file = Absent
       THEN /\ run' = failedStep(run, "load",
                         "app-knowledge.json not found. Skill may be corrupted.")
            /\ UNCHANGED <<knowledge, config>>
       ELSE IF file.kind # "json"
       THEN /\ run' = failedStep(run, "load", "Unexpected token in JSON")
            /\ UNCHANGED <<knowledge, config>>
       ELSE /\ run' = completedStep(config, run, "load")
            /\ knowledge' = file.doc
            /\ config' = existingUrlFallback(config, file.doc)
    /\ UNCHANGED <<disk, now, crawlVars, updates, lastMerge>>

\* new ExplorationEngine(config) and explorer.explore()
Explore ==
    /\ nextStep(config, run) = "explore"
    /\ IF ~isValidUrl(config.targetUrl)
       THEN run' = [run EXCEPT !.pc = "exit1", !.error = "Invalid URL", !.clean = FALSE]
       ELSE \E launched \in BOOLEAN :
               run' = IF launched THEN completedStep(config, run, "explore")
                      ELSE failedStep(run, "explore", "browser launch failed")
    /\ UNCHANGED <<config, disk, now, crawlVars, mergeVars>>

\* new AnalysisEngine(data, config) and analyzer.analyze()
Analyze ==
    /\ nextStep(config, run) = "analyze"
    /\ run' = completedStep(config, run, "analyze")
    /\ UNCHANGED <<config, disk, now, crawlVars, mergeVars>>

\* mergedAnalysis = this.mergeKnowledge(existingKnowledge, newAnalysis)
UpdateMerge ==
    /\ nextStep(config, run) = "merge"
    /\ IF mergeThrows(knowledge)
       THEN /\ run' = failedStep(run, "merge", "Cannot read properties of undefined")
            /\ UNCHANGED knowledge
       ELSE /\ run' = completedStep(config, run, "merge")
            /\ knowledge' = mergeKnowledge(knowledge, analyze(explorationData(config)))
    /\ UNCHANGED <<config, disk, now, crawlVars, updates, lastMerge>>

\* backupExistingSkill(): all of filesToBackup copied, or a copy throws after
\* k of them
UpdateBackup ==
    /\ nextStep(config, run) = "backup"
    /\ \E k \in 0..Len(filesToBackup) :
          LET name == backupTimestamp(now)
              dir  == copyFiles(backupDir(disk.backups, name), disk.files, k)
          IN /\ disk' = [disk EXCEPT !.backups =
                            [d \in DOMAIN disk.backups \cup {name} |->
                                IF d = name THEN dir ELSE disk.backups[d]]]
             /\ run' = IF k = Len(filesToBackup)
                       THEN completedStep(config, run, "backup")
                       ELSE failedStep(run, "backup", "copy failed")
    /\ UNCHANGED <<config, now, crawlVars, mergeVars>>

\* generator.generate(): the four artifacts written, or a write throws after k
\* of them
Generate ==
    /\ nextStep(config, run) = "generate"
    /\ \E k \in 0..Len(filesToBackup) :
          LET doc == IF config.updateMode THEN knowledge
                     ELSE createdKnowledge(analyze(explorationData(config)),
                                           InitialVersion)
          IN /\ disk' = [disk EXCEPT !.skillDir = TRUE,
                                     !.files = writeFiles(disk.files, doc, k)]
             /\ run' = IF k = Len(filesToBackup)
                       THEN completedStep(config, run, "generate")
                       ELSE failedStep(run, "generate", "write failed")
    /\ UNCHANGED <<config, now, crawlVars, mergeVars>>

\* Midnight passes.
NextDay ==
    /\ now.date < MaxDays
    /\ now' = [date |-> now.date + 1, time |-> 0]
    /\ UNCHANGED <<config, run, disk, crawlVars, mergeVars>>

RunNext ==
    \/ \E args \in Arguments : Main(args)
    \/ ReadContext
    \/ UpdateLoad
    \/ Explore
    \/ Analyze
    \/ UpdateMerge
    \/ UpdateBackup
    \/ Generate
    \/ NextDay

RunSpec == RunInit /\ [][RunNext]_vars


(***************************************************************************)
(* ===========  extractPageData and classifyPage (explorer.js)  ========== *)
(* A text (title, heading, body text, path) is the sequence of its         *)
(* fragments: words, syllables, spaces, digits, slashes.  "Login" is       *)
(* <<"Log", "in">>, "sign in" is <<"sign", " ", "in">>, the path           *)
(* "/items/42" is <<"/", "items", "/", "4", "2">>.                         *)
(***************************************************************************)
\* str.includes(keyword): the keyword's fragments occur in a row
includes(str, keyword) ==
    \E i \in 1..(Len(str) - Len(keyword) + 1) :
        SubSeq(str, i, i + Len(keyword) - 1) = keyword

\* str.toLowerCase()
lowerCase(str) == [i \in 1..Len(str) |-> toLowerCase(str[i])]

\* new URL(url).pathname as a text: the pathname's tokens after the leading slash
pathText(pathname) == <<"/">> \o pathname

\* /\d+$/.test(path)
endsWithDigits(path) == Len(path) > 0 /\ IsDigit(path[Len(path)])

\* classifyPage(data, path): explorer.js:325-357
classifyPage_HomepageFirst(data, path) ==
    LET lowerTitle == lowerCase(data.title \o <<" ">> \o data.heading \o <<" ">> \o path)
    IN IF path = <<"/">> \/ path = <<>> THEN "homepage"
       ELSE IF includes(lowerTitle, <<"log", "in">>) \/ includes(lowerTitle, <<"sign", " ", "in">>)
       THEN "login"
       ELSE IF \/ includes(lowerTitle, <<"sign", "up">>)
               \/ includes(lowerTitle, <<"register">>)
               \/ includes(lowerTitle, <<"sign", " ", "up">>)
       THEN "signup"
       ELSE IF includes(lowerTitle, <<"dash", "board">>) THEN "dashboard"
       ELSE IF includes(lowerTitle, <<"profile">>) \/ includes(lowerTitle, <<"account">>)
       THEN "profile"
       ELSE IF includes(lowerTitle, <<"contact">>) THEN "contact"
       ELSE IF includes(lowerTitle, <<"about">>) THEN "about"
       ELSE IF endsWithDigits(path) \/ includes(path, <<"detail">>) THEN "detail"
       ELSE IF \/ includes(path, <<"list">>)
               \/ includes(data.bodyText, <<"showing">>)
               \/ includes(data.bodyText, <<"results">>)
       THEN "list"
       ELSE "page"

classifyPage(data, path) ==
    LET lowerTitle == lowerCase(data.title \o <<" ">> \o data.heading \o <<" ">> \o path)
    IN IF includes(lowerTitle, <<"log", "in">>) \/ includes(lowerTitle, <<"sign", " ", "in">>)
       THEN "login"
       ELSE IF \/ includes(lowerTitle, <<"sign", "up">>)
               \/ includes(lowerTitle, <<"register">>)
               \/ includes(lowerTitle, <<"sign", " ", "up">>)
       THEN "signup"
       ELSE IF includes(lowerTitle, <<"dash", "board">>) THEN "dashboard"
       ELSE IF includes(lowerTitle, <<"profile">>) \/ includes(lowerTitle, <<"account">>)
       THEN "profile"
       ELSE IF includes(lowerTitle, <<"contact">>) THEN "contact"
       ELSE IF includes(lowerTitle, <<"about">>) THEN "about"
       ELSE IF path = <<"/">> \/ path = <<>> THEN "homepage"
       ELSE IF endsWithDigits(path) \/ includes(path, <<"detail">>) THEN "detail"
       ELSE IF \/ includes(path, <<"list">>)
               \/ includes(data.bodyText, <<"showing">>)
               \/ includes(data.bodyText, <<"results">>)
       THEN "list"
       ELSE "page"

\* The record extractPageData returns for the DOM facts `data` of the page at
\* `url` (explorer.js:177-190; pageName and description are left out).
pageRecord(data, url) ==
    [url |-> url,
     path |-> pathText(url.pathname),
     pageType |-> classifyPage(data, pathText(url.pathname)),
     title |-> data.title,
     heading |-> data.heading,
     preview |-> data.bodyText]

\* The DOM facts page.evaluate may return (explorer.js:168-175): the title, the
\* first h1 and the first 500 characters of the body text.
Titles ==
    { <<>>,
      <<"Log", "in">>,
      <<"Sign">>,
      <<"Sign", " ", "up">>,
      <<"My", " ", "Account">>,
      <<"About", " ", "the", " ", "Dash", "board">>,
      <<"Contact">> }

Headings == { <<>>, <<"in">>, <<"Dash", "board">>, <<"About">> }

BodyTexts == { <<>>, <<"showing", " ", "4", "2">>, <<"Results">>, <<"results">> }

\* The pages of the site: /, /login, /items/42, /list, /List, /detail, /about
PagePathnames ==
    { <<>>,
      <<"log", "in">>,
      <<"items", "/", "4", "2">>,
      <<"list">>,
      <<"List">>,
      <<"detail">>,
      <<"about">> }

DomFacts == [title : Titles, heading : Headings, bodyText : BodyTexts]

\* An engine that has visited nothing yet.
ExtractInit ==
    /\ CrawlIdle
    /\ MergeIdle
    /\ config = EngineConfig(<<>>)
    /\ ProgramIdle

\* const pageData = await this.extractPageData(page, url);
\* this.discoveredPages.push(pageData);
\* on a page drawn from the site (one page per behaviour).
ExtractPageData ==
    /\ discoveredPages = <<>>
    /\ \E data \in DomFacts, pathname \in PagePathnames :
          discoveredPages' =
              Append(discoveredPages, pageRecord(data, Url("app.test", "", pathname, "")))
    /\ UNCHANGED <<maxDepth, maxPages, visited, toVisit, discoveredForms, discoveredFlows,
                   interactiveElements, pc, explored, siteLinks, last, visits>>
    /\ UNCHANGED mergeVars
    /\ UNCHANGED programVars

ExtractSpec == ExtractInit /\ [][ExtractPageData]_vars


(***************************************************************************)
(* ======================  CLAIMS ABOUT THE CRAWL  ======================= *)
(***************************************************************************)

\* The step is an explorePage call (one more entry in the call log).
IsVisitStep == Len(explored') = Len(explored) + 1

\* The URLs reachable from the start URL over the links the pages carried.
RECURSIVE ReachFrom(_, _)
ReachFrom(S, n) ==
    IF n = 0 THEN S
    ELSE ReachFrom(S \cup UNION {Range(siteLinks[u]) : u \in S}, n - 1)

ReachablePages == ReachFrom({targetUrl}, Cardinality(AllUrls))

\* C1: in every reachable state of a run whose page cap maxPages is >= 1, the
\* visited set holds at most maxPages URLs.
C1_VisitedWithinPageCap ==
    maxPages >= 1 => Len(visited) <= maxPages

\* C1 witness: the run returned because the cap was reached, with entries
\* still pending in the queue.
C1_Witness_CapReachedWithPending ==
    /\ pc = "returned"
    /\ Len(visited) = maxPages
    /\ Len(toVisit) > 0

\* C2: no entry deeper than maxDepth is dequeued for a visit: every explorePage
\* call, hence every URL of the visited set, was made at a depth <= maxDepth.
C2_NoVisitBeyondMaxDepth ==
    /\ \A i \in 1..Len(explored) : explored[i].depth <= maxDepth
    /\ Range(visited) = {explored[i].url : i \in 1..Len(explored)}

\* C2 witness: an entry deeper than maxDepth was dequeued and skipped.
C2_Witness_DeepEntrySkipped ==
    /\ last.kind = "skip"
    /\ last.depth > maxDepth
    /\ last.url \notin Range(visited)

\* C3: the crawl loop terminates, on cyclic link graphs too; it returns exactly
\* when the queue is empty or the visited set has reached maxPages; and the
\* visited set never holds more URLs than min(reachable pages, maxPages).
C3_CrawlTerminatesBounded ==
    /\ <>(pc = "returned")
    /\ [](pc = "returned" => (toVisit = <<>> \/ Len(visited) >= maxPages))
    /\ []((pc = "crawling" /\ (toVisit = <<>> \/ Len(visited) >= maxPages))
            => ~ENABLED (LoopSkip \/ VisitLoadFailed \/ VisitThrows \/ VisitCompletes))
    /\ [](Len(visited) <= Min(Cardinality(ReachablePages), maxPages))
    /\ [](Range(visited) \subseteq ReachablePages)

\* C3 witness: a run over a cyclic link graph (a page links back to the start
\* page, which links to it) has returned with its queue drained.
C3_Witness_CyclicGraphReturned ==
    /\ pc = "returned"
    /\ toVisit = <<>>
    /\ Len(visited) < maxPages
    /\ \E u \in Range(visited) \ {targetUrl} :
          /\ targetUrl \in Range(siteLinks[u])
          /\ u \in Range(siteLinks[targetUrl])

\* C4: traversal is breadth-first: the queue is dequeued first-in first-out
\* (every step that changes it removes its head and appends at its tail), and
\* the depths of the explorePage calls are non-decreasing in call order.
NonDecreasingDepths ==
    \A i, j \in 1..Len(explored) : i < j => explored[i].depth <= explored[j].depth

FifoStep ==
    (toVisit' # toVisit /\ pc = "crawling") =>
        /\ toVisit # <<>>
        /\ Len(toVisit') >= Len(toVisit) - 1
        /\ SubSeq(toVisit', 1, Len(toVisit) - 1) = Tail(toVisit)
        /\ (IsVisitStep => explored'[Len(explored')] = Head(toVisit))

C4_BreadthFirstOrder ==
    /\ []NonDecreasingDepths
    /\ [][FifoStep]_vars

\* C4 witness: pages of three different depths have been visited.
C4_Witness_ThreeDepths ==
    /\ Len(explored) >= 3
    /\ explored[1].depth < explored[2].depth
    /\ explored[2].depth < explored[Len(explored)].depth

\* C5: a discovered link whose hostname differs from the start URL's is never
\* in the pending queue and never visited.
C5_OffHostNeverEnqueued ==
    /\ \A i \in 1..Len(toVisit) : toVisit[i].url.hostname = targetUrl.hostname
    /\ \A i \in 1..Len(visited) : visited[i].hostname = targetUrl.hostname

\* C5 witness: a page carrying a link to another host was fully processed and
\* the run went on.
C5_Witness_OffHostLinkSeen ==
    /\ \E u \in Range(visited) : External \in Range(siteLinks[u])
    /\ pc = "returned"

\* C6: when a page fails to load (goto rejects, or the response status is an
\* error status >= 400) the URL is marked visited, no page, form or element
\* record is added, no link is enqueued (the queue only loses its head), and
\* the loop goes on.
C6_FailedLoadStep ==
    (IsVisitStep /\ (last'.nav = 0 \/ last'.nav >= 400)) =>
        /\ last'.url \in Range(visited')
        /\ discoveredPages' = discoveredPages
        /\ discoveredForms' = discoveredForms
        /\ interactiveElements' = interactiveElements
        /\ toVisit' = Tail(toVisit)
        /\ pc' = "crawling"

C6_FailedLoadContributesNothing == [][C6_FailedLoadStep]_vars

\* C6 witness: a page other than the start page answered 404 while entries
\* were pending and page budget was left, so the loop goes on after it.
C6_Witness_FailedLoadWithPending ==
    /\ last.kind = "visit"
    /\ last.nav = 404
    /\ last.url # targetUrl
    /\ Len(toVisit) > 0
    /\ Len(visited) < maxPages
    /\ pc = "crawling"

\* C7 (as claimed): when an extraction step throws on a loaded page, the URL is
\* visited and the page has no PageRecord in the run's results.
C7_Claim_ThrowLeavesNoPageRecord ==
    (last.kind = "visit" /\ last.threw # "none") =>
        /\ last.url \in Range(visited)
        /\ \A i \in 1..Len(discoveredPages) : discoveredPages[i].url # last.url

\* C17 (as claimed): the hint pages of the config seed the frontier: right after
\* the start of the run every hint page (a path on the start host) is in the
\* pending queue, and a run that returns with page budget left has visited it.
C17_Claim_HintPagesSeedFrontier ==
    \A i \in 1..Len(config.hintPages) :
        /\ (pc = "crawling" /\ explored = <<>>) =>
               \E k \in 1..Len(toVisit) :
                  /\ toVisit[k].url.hostname = baseDomain
                  /\ toVisit[k].url.pathname = config.hintPages[i]
        /\ (pc = "returned" /\ Len(visited) < maxPages) =>
               \E k \in 1..Len(visited) :
                  /\ visited[k].hostname = baseDomain
                  /\ visited[k].pathname = config.hintPages[i]

\* C19: a discovered link whose path ends in a non-page file extension, in any
\* letter case, is never in the pending queue (nor visited), at whatever depth
\* it was found and whatever page budget is left.
C19_SkipExtensionNeverEnqueued ==
    /\ \A i \in 1..Len(toVisit) :
          LET path == toVisit[i].url.pathname IN
          ~(Len(path) > 0 /\ toLowerCase(path[Len(path)]) \in skipExtensions)
    /\ \A i \in 1..Len(visited) :
          LET path == visited[i].pathname IN
          ~(Len(path) > 0 /\ toLowerCase(path[Len(path)]) \in skipExtensions)

\* C19 witness: a page below the depth limit carried the link /report.PDF and
\* was processed to its end while page budget was left.
C19_Witness_PdfLinkSeenWithBudget ==
    /\ last.kind = "visit"
    /\ last.threw = "none"
    /\ last.nav = 200
    /\ last.depth < maxDepth
    /\ ReportPdf \in Range(siteLinks[last.url])
    /\ Len(visited) < maxPages
    /\ pc = "crawling"

\* C20 (as claimed): a visit of a page never adds to the pending queue a link
\* that is a pure same-page anchor (the path of the visited page plus a
\* fragment), whichever page of the crawl is visited.
C20_SamePageAnchorStep ==
    IsVisitStep =>
        \* the entries the visit pushed come after the old queue's tail
        \A k \in Len(toVisit)..Len(toVisit') :
            ~(/\ toVisit'[k].url.hostname = explored'[Len(explored')].url.hostname
              /\ toVisit'[k].url.pathname = explored'[Len(explored')].url.pathname
              /\ toVisit'[k].url.hash # "")

C20_Claim_SamePageAnchorNeverEnqueued == [][C20_SamePageAnchorStep]_vars

\* C21: with maxPages = 1 there is never more than one explorePage call, and
\* once the start page was loaded and its links to other pages were read, the
\* results hold exactly one PageRecord, the start page's, the visited set holds
\* only the start URL, and none of the outbound links is ever visited.
C21_SinglePageBudget ==
    maxPages = 1 =>
        /\ Len(explored) <= 1
        /\ Len(discoveredPages) <= 1
        /\ siteLinks[targetUrl] # <<>> =>
              /\ discoveredPages = <<extractPageData(targetUrl)>>
              /\ visited = <<targetUrl>>
              /\ explored = <<[url |-> targetUrl, depth |-> 0]>>
              /\ \A i \in 1..Len(siteLinks[targetUrl]) :
                    siteLinks[targetUrl][i] # targetUrl =>
                        siteLinks[targetUrl][i] \notin Range(visited)

\* C21 witness: a run with maxPages = 1 returned after the start page was loaded
\* and its links to the pages /a and /b were enqueued: they are left pending.
C21_Witness_OnePageLinksPending ==
    /\ maxPages = 1
    /\ pc = "returned"
    /\ last.kind = "visit"
    /\ last.nav = 200
    /\ PageA \in Range(siteLinks[targetUrl])
    /\ \E k \in 1..Len(toVisit) : toVisit[k].url = PageA
    /\ \E k \in 1..Len(toVisit) : toVisit[k].url = PageB

\* A visit failed: the page did not load, or a step of explorePage threw.
VisitFailed(v) == v.kind = "visit" /\ (v.nav = 0 \/ v.nav >= 400 \/ v.threw # "none")

\* C22 (as claimed): no failure of a page visit makes explore() throw (the run
\* is always constructed, crawling or returned with its result), and when the
\* visit of the start URL itself fails, the run ends with nothing pending and
\* with empty page and form collections.
C22_Claim_StartFailureGivesEmptyResult ==
    /\ pc \in {"created", "crawling", "returned"}
    /\ (VisitFailed(last) /\ last.url = targetUrl) =>
          /\ toVisit = <<>>
          /\ discoveredPages = <<>>
          /\ discoveredForms = <<>>

\* The queue entries a visit at `depth` pushes for `links`, in link order: the
\* links on the start host that are no non-page resource, no anchor on the
\* first visited page and not visited yet.
Pushed(links, vis, depth) ==
    LET follow(l) == shouldFollowLink(l, vis) /\ l \notin Range(vis)
        kept == SelectSeq(links, follow)
    IN [i \in 1..Len(kept) |-> [url |-> kept[i], depth |-> depth + 1]]

\* C23: a visit whose screenshot capture failed is not failed by it: the page's
\* PageRecord, forms and elements are appended to the results, the only step
\* that can still fail the visit is the link extraction after the capture, and
\* when that returns the page's links are enqueued as on any visit.
C23_ScreenshotFailureStep ==
    (IsVisitStep /\ last'.shotFailed) =>
        /\ last'.threw \in {"none", "extractLinks"}
        /\ discoveredPages' = Append(discoveredPages, extractPageData(last'.url))
        /\ discoveredForms' = discoveredForms \o extractForms(last'.url)
        /\ interactiveElements' =
              interactiveElements \o extractInteractiveElements(last'.url)
        /\ last'.threw = "none" =>
              toVisit' = Tail(toVisit)
                           \o Pushed(siteLinks'[last'.url], visited', last'.depth)

C23_ScreenshotFailureHarmless == [][C23_ScreenshotFailureStep]_vars

\* C23 witness: the capture failed on a page that has a form and whose links
\* were then extracted, and two of them were enqueued.
C23_Witness_ShotFailedLinksEnqueued ==
    /\ last.kind = "visit"
    /\ last.shotFailed
    /\ last.threw = "none"
    /\ extractForms(last.url) # <<>>
    /\ Len(siteLinks[last.url]) >= 2
    /\ Len(toVisit) >= 2
    /\ toVisit[Len(toVisit)].depth = last.depth + 1
    /\ toVisit[Len(toVisit) - 1].depth = last.depth + 1
    /\ toVisit[Len(toVisit)].url \in Range(siteLinks[last.url])

\* C24 (as claimed): a visit whose navigation gave no response, or a response
\* with a status outside 200-299 (a 3xx status included), is a failed visit: it
\* adds no PageRecord and enqueues no link (the queue only loses its head).
C24_NonSuccessStatusStep ==
    (IsVisitStep /\ ~(last'.nav >= 200 /\ last'.nav <= 299)) =>
        /\ discoveredPages' = discoveredPages
        /\ toVisit' = Tail(toVisit)

C24_Claim_Non2xxIsFailedVisit == [][C24_NonSuccessStatusStep]_vars

\* The classification rules in their order, and what each one asks of a
\* PageRecord: a keyword in the lower-cased title, heading and path, the root
\* path, a path ending in digits or holding "detail", "list" in the path or
\* "showing"/"results" in the body preview; the last rule takes every page.
Rules == <<"login", "signup", "dashboard", "profile", "contact", "about",
           "homepage", "detail", "list", "page">>

RuleHolds(rule, r) ==
    LET text == lowerCase(r.title \o <<" ">> \o r.heading \o <<" ">> \o r.path)
        has(keyword) == includes(text, keyword)
    IN CASE rule = "login" -> has(<<"log", "in">>) \/ has(<<"sign", " ", "in">>)
         [] rule = "signup" ->
                has(<<"sign", "up">>) \/ has(<<"register">>) \/ has(<<"sign", " ", "up">>)
         [] rule = "dashboard" -> has(<<"dash", "board">>)
         [] rule = "profile" -> has(<<"profile">>) \/ has(<<"account">>)
         [] rule = "contact" -> has(<<"contact">>)
         [] rule = "about" -> has(<<"about">>)
         [] rule = "homepage" -> r.path = <<"/">>
         [] rule = "detail" ->
                (Len(r.path) > 0 /\ IsDigit(r.path[Len(r.path)])) \/ includes(r.path, <<"detail">>)
         [] rule = "list" ->
                \/ includes(r.path, <<"list">>)
                \/ includes(r.preview, <<"showing">>)
                \/ includes(r.preview, <<"results">>)
         [] rule = "page" -> TRUE

\* C27: the pageType of a PageRecord is the type of the first rule, in the
\* order login, signup, dashboard, profile, contact, about, homepage, detail,
\* list, page, whose predicate holds on the record's title, heading and path
\* (and body preview for list); classifying the record's signals again gives
\* the pageType it carries.
C27_FirstMatchWins ==
    \A k \in 1..Len(discoveredPages) :
        LET r == discoveredPages[k]
            first == CHOOSE i \in 1..Len(Rules) :
                        /\ RuleHolds(Rules[i], r)
                        /\ \A j \in 1..(i - 1) : ~RuleHolds(Rules[j], r)
        IN /\ r.pageType = Rules[first]
           /\ classifyPage([title |-> r.title, heading |-> r.heading,
                            bodyText |-> r.preview], r.path) = r.pageType

\* C27 witness: the root page titled "About the Dashboard", with results in its
\* body, meets the rules dashboard, about, homepage and list and is classified
\* by the first of them.
C27_Witness_SeveralRulesMatch ==
    /\ Len(discoveredPages) = 1
    /\ discoveredPages[1].pageType = "dashboard"
    /\ RuleHolds("about", discoveredPages[1])
    /\ RuleHolds("homepage", discoveredPages[1])
    /\ RuleHolds("list", discoveredPages[1])
    /\ ~RuleHolds("login", discoveredPages[1])

\* C29 (as claimed): every attempted visit takes exactly one slot of the page
\* budget and is either a failed visit or one PageRecord, never both and never
\* neither, so that at every moment, hence at the end of the run, the number of
\* PageRecords plus the number of failed visits is the size of the visited set,
\* which is the number of visits made and at most maxPages.
C29_VisitStep ==
    IsVisitStep =>
        /\ Len(visited') = Len(visited) + 1
        /\ (Len(discoveredPages') - Len(discoveredPages))
             + (IF VisitFailed(last') THEN 1 ELSE 0) = 1

C29_Claim_BudgetAccounting ==
    /\ [](Len(visited) = Len(explored))
    /\ [](Len(visited) <= maxPages)
    /\ [][C29_VisitStep]_vars

\* C30 (as claimed): the pending queue never holds an entry whose depth is
\* greater than maxDepth.
C30_Claim_QueueWithinMaxDepth ==
    \A i \in 1..Len(toVisit) : toVisit[i].depth <= maxDepth

\* C30 (amended): a link found on a page of depth maxDepth is enqueued like any
\* other, at depth maxDepth + 1, which is the deepest the queue ever holds; the
\* depth limit acts at dequeue: an entry deeper than maxDepth is dropped without
\* a visit (nothing is added to the visited set or to the results), and no
\* explorePage call is ever made at a depth greater than maxDepth.
C30_DeepHeadStep ==
    (pc = "crawling" /\ toVisit # <<>> /\ toVisit' # toVisit
       /\ Head(toVisit).depth > maxDepth) =>
        /\ toVisit' = Tail(toVisit)
        /\ UNCHANGED <<visited, explored, discoveredPages, discoveredForms,
                       interactiveElements>>

C30_DepthLimitActsAtDequeue ==
    /\ [](\A i \in 1..Len(toVisit) : toVisit[i].depth <= maxDepth + 1)
    /\ [](\A i \in 1..Len(explored) : explored[i].depth <= maxDepth)
    /\ [][C30_DeepHeadStep]_vars

\* C30 witness: a page at depth maxDepth was visited with page budget left and
\* its link waits in the queue at depth maxDepth + 1.
C30_Witness_DeepEntryPending ==
    /\ pc = "crawling"
    /\ last.kind = "visit"
    /\ last.depth = maxDepth
    /\ Len(visited) < maxPages
    /\ \E i \in 1..Len(toVisit) :
          /\ toVisit[i].depth = maxDepth + 1
          /\ toVisit[i].url \in Range(siteLinks[last.url])
          /\ toVisit[i].url \notin Range(visited)

\* C31: a URL is visited at most once per run: no two explorePage calls are
\* made for the same URL, also when the URL was found on several pages and is
\* in the pending queue more than once; the visited set holds every URL once
\* and only grows (each step keeps what it held, in the same order).
C31_VisitedGrowsStep ==
    /\ Len(visited') >= Len(visited)
    /\ SubSeq(visited', 1, Len(visited)) = visited

C31_VisitedAtMostOnce ==
    /\ [](\A i, j \in 1..Len(explored) : explored[i].url = explored[j].url => i = j)
    /\ [](\A i, j \in 1..Len(visited) : visited[i] = visited[j] => i = j)
    /\ [][C31_VisitedGrowsStep]_vars

\* C31 witness: a URL that two pages linked to was dequeued a second time,
\* within the depth limit and with page budget left, and was skipped.
C31_Witness_QueuedTwiceSkipped ==
    /\ last.kind = "skip"
    /\ last.depth <= maxDepth
    /\ last.url \in Range(visited)
    /\ Cardinality({u \in Range(visited) : last.url \in Range(siteLinks[u])}) >= 2
    /\ Len(visited) < maxPages

\* C32: the list of PageRecords only grows by appending, at most one record per
\* step: a record once appended stays where it is, unmodified, until the run
\* returns; no two records of a run have the same url, and every record is the
\* one extracted for a URL of the visited set.
C32_PageRecordsStep ==
    /\ Len(discoveredPages') \in {Len(discoveredPages), Len(discoveredPages) + 1}
    /\ SubSeq(discoveredPages', 1, Len(discoveredPages)) = discoveredPages

C32_PageRecordsAppendOnly ==
    /\ [](\A i, j \in 1..Len(discoveredPages) :
              discoveredPages[i].url = discoveredPages[j].url => i = j)
    /\ [](\A i \in 1..Len(discoveredPages) :
              /\ discoveredPages[i].url \in Range(visited)
              /\ discoveredPages[i] = extractPageData(discoveredPages[i].url))
    /\ [][C32_PageRecordsStep]_vars

\* C32 witness: the run returned with three PageRecords, the first two of them
\* appended before a later visit of another page.
C32_Witness_ThreeRecordsReturned ==
    /\ pc = "returned"
    /\ Len(discoveredPages) = 3
    /\ discoveredPages[1].url = targetUrl
    /\ discoveredPages[3].url = last.url
    /\ last.kind = "visit"

\* The followable links found on the visited pages of depth below maxDepth:
\* siteLinks holds the links extractLinks returned for a page, none for a page
\* that did not load or whose extraction threw.
LinksToFollow ==
    { l \in AllUrls :
        \E i \in 1..Len(explored) :
            /\ explored[i].depth < maxDepth
            /\ l \in Range(siteLinks[explored[i].url])
            /\ shouldFollowLink(l, visited) }

\* C37: when explore() has returned with the pending queue empty and fewer
\* than maxPages URLs visited, every followable link (same host, no skipped
\* extension, no rejected anchor) found on a successfully loaded page that was
\* visited at a depth below maxDepth is in the visited set.
C37_EmptyQueueMeansComplete ==
    (pc = "returned" /\ toVisit = <<>> /\ Len(visited) < maxPages) =>
        LinksToFollow \subseteq Range(visited)

\* C37 witness: a run with maxDepth 1 has returned with the queue empty and
\* three of at most 50 URLs visited; /a and /b, linked from the start page, are
\* visited, and the followable link /a#x found on /a at depth 1 is not.
C37_Witness_CompleteBelowMaxDepth ==
    /\ pc = "returned"
    /\ toVisit = <<>>
    /\ maxDepth = 1
    /\ Len(visited) = 3
    /\ Len(visited) < maxPages
    /\ LinksToFollow = {PageA, PageB}
    /\ AnchorOnA \in Range(siteLinks[PageA])
    /\ shouldFollowLink(AnchorOnA, visited)
    /\ AnchorOnA \notin Range(visited)

\* The URLs a chain of at most k followable links reaches from the start URL,
\* every page of the chain but the last being one whose links were extracted.
RECURSIVE WithinHops(_)
WithinHops(k) ==
    IF k = 0 THEN {targetUrl}
    ELSE LET near == WithinHops(k - 1)
         IN near \cup { l \in AllUrls :
                          \E p \in near : /\ l \in Range(siteLinks[p])
                                           /\ shouldFollowLink(l, visited) }

\* C38: every visited URL was explored at its minimal depth: the depth passed
\* to explorePage is the length of the shortest chain of followable links from
\* the start URL to it through successfully loaded visited pages.
C38_VisitedAtMinimalDepth ==
    \A i \in 1..Len(explored) :
        /\ explored[i].url \in WithinHops(explored[i].depth)
        /\ explored[i].depth > 0 => explored[i].url \notin WithinHops(explored[i].depth - 1)

\* C38 witness: a URL explored at depth 1 was queued again at depth 2, from a
\* page of depth 1 that links to it, and that entry has just been skipped; a
\* page of depth 2 has been explored as well.
C38_Witness_RequeuedDeeperSkipped ==
    /\ last.kind = "skip"
    /\ last.depth = 2
    /\ \E i \in 1..Len(explored) :
          explored[i].url = last.url /\ explored[i].depth = 1
    /\ \E i \in 1..Len(explored) : explored[i].depth = 2

\* C39: a configured maxDepth or maxPages of 0, or one that is not a number,
\* is replaced by the default: the depth ceiling is then 3 and the page cap 50,
\* and a run configured with maxDepth 0 explores pages down to depth 3 and none
\* deeper; any other configured value is the ceiling, respectively the cap.
C39_ZeroOrNonNumericMeansDefault ==
    /\ maxDepth = IF config.maxDepth \in {0, NaN} THEN 3 ELSE config.maxDepth
    /\ maxPages = IF config.maxPages \in {0, NaN} THEN 50 ELSE config.maxPages
    /\ config.maxDepth \in {0, NaN} =>
          \A i \in 1..Len(explored) : explored[i].depth <= 3
    /\ config.maxPages \in {0, NaN} => Len(visited) <= 50

\* C39 witness: a run configured with maxDepth 0 and maxPages 0 has explored
\* five URLs, more than any configured cap of the model allows, among them a
\* page at each of the depths 0, 1, 2 and 3, and has returned.
C39_Witness_DepthZeroReachesDepthThree ==
    /\ config.maxDepth = 0
    /\ config.maxPages = 0
    /\ \A d \in 0..3 : \E i \in 1..Len(explored) : explored[i].depth = d
    /\ Len(visited) = 5
    /\ pc = "returned"

C28_DequeueStep ==
    (toVisit # <<>> /\ toVisit' = Tail(toVisit)) => visits = {}

C28_StrictlySequential ==
    /\ [](Cardinality(visits) <= 1)
    /\ [][C28_DequeueStep]_vars

\* C28 witness: a visit of a page other than the start page is suspended at its
\* screenshot capture while entries are pending and page budget is left.
C28_Witness_PendingWhileCapturing ==
    /\ \E v \in visits : v.at = "captureScreenshot" /\ v.url # targetUrl
    /\ Len(toVisit) > 0
    /\ ~skipEntry(Head(toVisit), visited, maxDepth)
    /\ Len(visited) < maxPages
    /\ pc = "crawling"


(***************************************************************************)
(* ======================  CLAIMS ABOUT THE MERGE  ======================= *)
(***************************************************************************)

\* C8 (as claimed): merge never drops a page customization: every page of the
\* existing knowledge that carried customData and whose path is in the fresh
\* snapshot (in whatever category) has the same customData in the merged
\* knowledge.
C8_Claim_PageCustomDataKept ==
    lastMerge.called =>
        \A c \in lastMerge.customPages :
            \A p \in allPages(knowledge) :
                p.path = c.path => p.customData = c.customData

\* The number of forms of a list whose action has the path `path`.
FormsAtPath(forms, path) == Cardinality({i \in 1..Len(forms) : formPath(forms[i]) = path})

\* C9 (as claimed, read in the code's favour): merge never drops a form
\* customization: for every form of the existing knowledge that carried
\* customTestData, if the fresh snapshot has a form for it (as many forms of its
\* action path as the existing knowledge had), a merged form of that path
\* carries that customTestData, also when several forms share the path.
C9_Claim_FormCustomTestDataKept ==
    lastMerge.called =>
        \A i \in 1..Len(lastMerge.forms) :
            LET e == lastMerge.forms[i] IN
            (/\ e.customTestData # ""
             /\ FormsAtPath(knowledge.forms, formPath(e)) >=
                    FormsAtPath(lastMerge.forms, formPath(e)))
            => \E f \in Range(knowledge.forms) :
                    formPath(f) = formPath(e) /\ f.customTestData = e.customTestData

\* C18 (as claimed): an operator's edit of a generated value survives an update:
\* for every action path that has exactly one form before and after the update,
\* the merged form carries the test data the existing form had (the operator's
\* value when they edited it).
C18_Claim_OperatorEditKept ==
    lastMerge.called =>
        \A i \in 1..Len(lastMerge.forms) :
            LET e == lastMerge.forms[i] IN
            (/\ FormsAtPath(lastMerge.forms, formPath(e)) = 1
             /\ FormsAtPath(knowledge.forms, formPath(e)) = 1)
            => \A f \in Range(knowledge.forms) :
                    formPath(f) = formPath(e) => f.testData = e.testData

\* The major, minor and patch numbers a version string spells.
SemverOf(version) ==
    LET parts == split(version)
    IN <<parseInt(parts[1]), parseInt(parts[2]), parseInt(parts[3])>>

IsSemver(version) ==
    /\ Len(split(version)) = 3
    /\ \A i \in 1..3 : split(version)[i] # <<>> /\ \A k \in 1..Len(split(version)[i]) :
                           IsDigit(split(version)[i][k])

\* semantic-version order
SemverLess(v, w) ==
    LET a == SemverOf(v)
        b == SemverOf(w)
    IN \/ a[1] < b[1]
       \/ a[1] = b[1] /\ a[2] < b[2]
       \/ a[1] = b[1] /\ a[2] = b[2] /\ a[3] < b[3]

\* C10: a merge from a semantic version major.minor.patch yields a semantic
\* version that is strictly greater: minor + 1, major and patch unchanged; and
\* over a sequence of updates the recorded versions strictly increase.
C10_VersionMinorBump ==
    /\ IsSemver(knowledge.version)
    /\ lastMerge.called =>
          /\ SemverLess(lastMerge.previousVersion, knowledge.version)
          /\ SemverOf(knowledge.version)[1] = SemverOf(lastMerge.previousVersion)[1]
          /\ SemverOf(knowledge.version)[2] = SemverOf(lastMerge.previousVersion)[2] + 1
          /\ SemverOf(knowledge.version)[3] = SemverOf(lastMerge.previousVersion)[3]
    /\ \A i \in 1..Len(knowledge.updateHistory) :
          /\ SemverLess(knowledge.updateHistory[i].previousVersion,
                        knowledge.updateHistory[i].newVersion)
          /\ i > 1 => knowledge.updateHistory[i].previousVersion =
                         knowledge.updateHistory[i - 1].newVersion
          /\ i = Len(knowledge.updateHistory) =>
                knowledge.updateHistory[i].newVersion = knowledge.version

\* C10 witness: two updates in a row, the second taking the minor number from
\* one digit to two (x.9.z to x.10.z).
C10_Witness_TwoUpdatesWithCarry ==
    /\ lastMerge.called
    /\ updates = 2
    /\ SemverOf(lastMerge.previousVersion)[2] = 9
    /\ SemverOf(knowledge.version)[2] = 10
    /\ SemverOf(knowledge.version)[3] > 0

\* C25: every update appends exactly one entry to updateHistory: the merged
\* history is the existing one, unchanged and in the same order, followed by one
\* entry whose previousVersion is the existing version and whose newVersion is
\* the merged version; no other step touches the history, so the history holds
\* one entry per update made and no earlier entry is ever rewritten or removed.
C25_HistoryStep ==
    LET old == knowledge.updateHistory
        new == knowledge'.updateHistory
    IN IF lastMerge'.called
       THEN /\ Len(new) = Len(old) + 1
            /\ SubSeq(new, 1, Len(old)) = old
            /\ new[Len(new)].previousVersion = knowledge.version
            /\ new[Len(new)].newVersion = knowledge'.version
       ELSE new = old

C25_HistoryAppendOnly ==
    /\ [](Len(knowledge.updateHistory) = updates)
    /\ [][C25_HistoryStep]_vars

\* C25 witness: after two updates the history holds two entries, the first of
\* them for an update that added pages, chained by their versions.
C25_Witness_TwoEntriesChained ==
    /\ lastMerge.called
    /\ updates = 2
    /\ Len(knowledge.updateHistory) = 2
    /\ knowledge.updateHistory[1].pagesAdded > 0
    /\ knowledge.updateHistory[1].previousVersion = InitialVersion
    /\ knowledge.updateHistory[1].newVersion = knowledge.updateHistory[2].previousVersion
    /\ knowledge.updateHistory[2].newVersion = knowledge.version

\* The action paths of a list of forms.
FormPaths(forms) == {forms[i].action.pathname : i \in 1..Len(forms)}

\* C33: after a merge, removedForms lists, once each, exactly the action paths
\* that occur among the existing forms and among none of the fresh forms; and
\* the merge is completed whether or not forms were removed: the merged
\* knowledge holds the fresh forms under the bumped version and one more
\* history entry.
C33_RemovedFormsExact ==
    lastMerge.called =>
        /\ Range(knowledge.removedForms) = FormPaths(lastMerge.forms) \ FormPaths(knowledge.forms)
        /\ \A i, j \in 1..Len(knowledge.removedForms) :
              knowledge.removedForms[i] = knowledge.removedForms[j] => i = j
        /\ knowledge.version = bumpVersion(lastMerge.previousVersion)
        /\ Len(knowledge.updateHistory) = updates

\* C33 witness: the existing knowledge held forms on /a and /b, the fresh
\* snapshot holds only the one on /b: /a is reported removed, /b is not.
C33_Witness_OneRemovedOneKept ==
    /\ lastMerge.called
    /\ FormPaths(lastMerge.forms) = {PageA.pathname, PageB.pathname}
    /\ FormPaths(knowledge.forms) = {PageB.pathname}
    /\ knowledge.removedForms = <<PageA.pathname>>

\* C35 (as claimed): the formsAdded value of a history entry is the number of
\* fresh forms whose action path no existing form has, the flowsAdded value is
\* the number of fresh flows the existing knowledge does not hold, and neither
\* value is negative.
C35_AddedCountsStep ==
    lastMerge'.called =>
        LET entry == knowledge'.updateHistory[Len(knowledge'.updateHistory)]
            fresh == lastMerge'.newAnalysis
            newForms == {i \in 1..Len(fresh.forms) :
                            fresh.forms[i].action.pathname \notin FormPaths(knowledge.forms)}
            newFlows == {i \in 1..Len(fresh.userFlows) :
                            fresh.userFlows[i] \notin Range(knowledge.userFlows)}
        IN /\ entry.formsAdded = Cardinality(newForms)
           /\ entry.flowsAdded = Cardinality(newFlows)
           /\ entry.formsAdded >= 0
           /\ entry.flowsAdded >= 0

C35_Claim_AddedCountsAreAdditions == [][C35_AddedCountsStep]_vars

\* The page paths recorded in a knowledge, over all its categories.
PagePaths(k) == {p.path : p \in allPages(k)}

\* A list of pages without the customizations carried onto them.
WithoutCustomData(pages) == [i \in 1..Len(pages) |-> [pages[i] EXCEPT !.customData = ""]]

\* C34: the pages of the merged knowledge are the pages of the fresh snapshot,
\* category by category and in the same order (with the customizations carried
\* over); a page of the existing knowledge whose path the fresh snapshot does
\* not hold is not in the merged knowledge, and nothing records its removal:
\* the merged knowledge has no field for removed pages and the history entry
\* counts added pages only.
C34_MergedPagesStep ==
    lastMerge'.called =>
        LET fresh == lastMerge'.newAnalysis.pages
            entry == knowledge'.updateHistory[Len(knowledge'.updateHistory)]
        IN /\ DOMAIN knowledge'.pages = DOMAIN fresh
           /\ \A category \in DOMAIN fresh :
                 WithoutCustomData(knowledge'.pages[category]) = fresh[category]
           /\ \A path \in PagePaths(knowledge) \ PagePaths([pages |-> fresh]) :
                 path \notin PagePaths(knowledge')
           /\ DOMAIN knowledge' = {"baseUrl", "version", "pages", "forms", "userFlows",
                                   "removedForms", "updateHistory"}
           /\ DOMAIN entry = {"previousVersion", "newVersion", "pagesAdded",
                              "formsAdded", "flowsAdded"}

C34_MergedPagesAreFreshPages == [][C34_MergedPagesStep]_vars

\* C34 witness: a page the operator had customized is gone from the merged
\* knowledge, while another page of the existing knowledge is still there.
C34_Witness_CustomizedPageDropped ==
    /\ lastMerge.called
    /\ \E c \in lastMerge.customPages : c.path \notin PagePaths(knowledge)
    /\ PagePaths(knowledge) # {}
    /\ knowledge.updateHistory[Len(knowledge.updateHistory)].pagesAdded = 0

\* C26 (as claimed): the pagesAdded count an update records is the number of
\* distinct page paths that the fresh snapshot holds and no category of the
\* existing knowledge held; when the snapshot adds one page path and the forms
\* are as many as before, the entry says pagesAdded = 1 and formsAdded = 0 and
\* the merged pages hold the new path.
C26_PagesAddedStep ==
    lastMerge'.called =>
        LET entry == knowledge'.updateHistory[Len(knowledge'.updateHistory)]
            added == PagePaths(knowledge') \ PagePaths(knowledge)
        IN /\ entry.pagesAdded = Cardinality(added)
           /\ (Cardinality(added) = 1 /\ Len(knowledge'.forms) = Len(knowledge.forms)) =>
                 /\ entry.pagesAdded = 1
                 /\ entry.formsAdded = 0
                 /\ added \subseteq PagePaths(knowledge')

C26_Claim_PagesAddedCountsDistinctPaths == [][C26_PagesAddedStep]_vars

(***************************************************************************)
(* =======================  CLAIMS ABOUT THE RUNS ======================= *)
(***************************************************************************)

\* C11: in an update run, whenever an artifact of the skill directory differs
\* from what the run found, a backup directory holds a copy of every artifact
\* the run found: the backup is complete before the first overwrite.
C11_BackupBeforeOverwrite ==
    (config.updateMode /\ run.pc # "idle" /\ disk.files # run.diskBefore.files) =>
        \E d \in DOMAIN disk.backups :
            \A f \in Artifacts :
                run.diskBefore.files[f] # Absent =>
                    disk.backups[d][f] = run.diskBefore.files[f]

\* C11 witness: an update run has finished, it overwrote all four artifacts
\* and the backup of the day holds the four it found.
C11_Witness_UpdateDoneWithBackup ==
    /\ config.updateMode
    /\ run.pc = "done"
    /\ \A f \in Artifacts :
          /\ run.diskBefore.files[f] # Absent
          /\ disk.files[f] # run.diskBefore.files[f]
          /\ backupTimestamp(now) \in DOMAIN disk.backups
          /\ disk.backups[backupTimestamp(now)][f] = run.diskBefore.files[f]

\* C12 (as claimed): backups are append-only: after updates that all
\* succeeded, every version an update superseded (the previousVersion of each
\* entry of the persisted update history) still has its app-knowledge.json in
\* some backup directory, also when two updates ran on the same day.
C12_Claim_BackupsAppendOnly ==
    LET file == disk.files["app-knowledge.json"] IN
    (/\ run.clean
     /\ run.pc = "done"
     /\ file.kind = "json"
     /\ "updateHistory" \in DOMAIN file.doc) =>
        \A i \in 1..Len(file.doc.updateHistory) :
            \E d \in DOMAIN disk.backups :
                /\ disk.backups[d]["app-knowledge.json"].kind = "json"
                /\ disk.backups[d]["app-knowledge.json"].doc.version =
                      file.doc.updateHistory[i].previousVersion

\* C13 (as claimed): an update run that failed, at whatever step, has left the
\* artifacts of the skill directory as it found them.
C13_Claim_FailedUpdateRolledBack ==
    (config.updateMode /\ run.pc = "exit1") =>
        /\ disk.files = run.diskBefore.files
        /\ disk.skillDir = run.diskBefore.skillDir

\* The app-knowledge.json the run found, and what is wrong with it.
PriorKnowledgeFile == run.diskBefore.files["app-knowledge.json"]

PriorMissing == ~run.diskBefore.skillDir \/ PriorKnowledgeFile = Absent

PriorMalformed ==
    /\ ~PriorMissing
    /\ \/ PriorKnowledgeFile.kind # "json"
       \/ ~({"baseUrl", "version", "pages", "forms", "userFlows", "updateHistory"}
               \subseteq DOMAIN PriorKnowledgeFile.doc)
       \/ ~IsSemver(PriorKnowledgeFile.doc.version)

\* C14 (as claimed): an update that finds the skill directory or its
\* app-knowledge.json missing, or the file unreadable or malformed, fails: it
\* never completes, creates no backup and writes no artifact; when the file or
\* directory is missing it fails before exploring, with the create-first hint.
C14_Claim_UpdateNeedsSoundPriorArtifact ==
    (config.updateMode /\ "load" \in Range(run.phases)) =>
        /\ (PriorMissing \/ PriorMalformed) =>
              /\ run.pc # "done"
              /\ disk = run.diskBefore
        /\ PriorMissing =>
              /\ run.pc = "exit1"
              /\ "explore" \notin Range(run.phases)
              /\ run.error = "Skill not found. Create it first with --name and --url"

\* The configuration errors: no application name, a URL that does not parse,
\* or, outside update mode, neither a URL nor a documentation path.
ConfigurationError(cfg) ==
    \/ cfg.appName = ""
    \/ cfg.targetUrl # Null /\ "hostname" \notin DOMAIN cfg.targetUrl
    \/ ~cfg.updateMode /\ cfg.targetUrl = Null /\ cfg.contextPath = ""

\* C15: an invocation with a configuration error has exited with failure
\* without beginning any phase (context reading, exploration, analysis,
\* merge, backup, generation) and without touching the skill directory.
C15_ConfigErrorFatalAtStartup ==
    (run.pc # "idle" /\ ConfigurationError(config)) =>
        /\ run.pc = "exit1"
        /\ run.error # ""
        /\ run.phases = <<>>
        /\ disk = run.diskBefore

\* C15 witness: an invocation with a name, a documentation path and a URL that
\* does not parse has exited before reading the documentation.
C15_Witness_MalformedUrlRejected ==
    /\ run.pc = "exit1"
    /\ config.appName = "myapp"
    /\ config.contextPath = "app-info.md"
    /\ config.targetUrl = MalformedUrl
    /\ run.error = "Invalid URL"

\* C16 (as claimed): a create run with a name and a documentation path whose
\* documentation names a URL does not fail before exploration, and explores
\* from the explicit URL when one was given, else from the documentation's.
C16_Claim_DocsSeedStartUrl ==
    (/\ run.pc # "idle"
     /\ ~config.updateMode
     /\ config.appName # ""
     /\ config.contextPath = "app-info.md"
     /\ config.targetUrl # MalformedUrl) =>
        /\ run.pc = "exit1" => "explore" \in Range(run.phases)
        /\ "explore" \in Range(run.phases) => config.targetUrl \in {targetUrl, DocsUrl}

\* The URL an update is to re-explore: the one on the command line, else the
\* baseUrl of the app-knowledge.json the invocation found.
UrlOfUpdate ==
    IF run.argv.targetUrl # Null THEN run.argv.targetUrl
    ELSE baseUrlOf(PriorKnowledgeFile.doc)

\* C36, step form: an invocation with --name and --update alone passes
\* validation; the exploration of an update starts from the URL of the command
\* line, else from the stored baseUrl, and the merged knowledge carries the
\* baseUrl the exploration returned, which is that URL.
C36_UpdateUrlStep ==
    /\ (/\ run'.n = run.n + 1
        /\ config'.appName # ""
        /\ config'.updateMode
        /\ config'.targetUrl = Null
        /\ config'.contextPath = "") => run'.pc = "validated"
    /\ (config.updateMode /\ run.pc = "load" /\ run'.pc = "explore") =>
           /\ config.targetUrl = UrlOfUpdate
           /\ explorationData(config).baseUrl = UrlOfUpdate
    /\ (config.updateMode /\ run.pc = "analyze" /\ run'.pc = "merge") =>
           knowledge'.baseUrl = UrlOfUpdate

\* C36: an update invoked with the application name alone passes validation
\* and re-explores from the baseUrl stored in the existing knowledge; an update
\* invoked with an explicit URL re-explores from that URL instead.
C36_UpdateReexploresStoredOrGivenUrl == [][C36_UpdateUrlStep]_vars

\* C36 witness: an update given only the name has merged the exploration of the
\* documentation's URL, the baseUrl of the skill it found, which is not the
\* URL a command line can give.
C36_Witness_NameOnlyUpdateUsedStoredUrl ==
    /\ run.pc = "merge"
    /\ config.updateMode
    /\ run.argv.targetUrl = Null
    /\ run.argv.contextPath = ""
    /\ baseUrlOf(PriorKnowledgeFile.doc) = DocsUrl
    /\ knowledge.baseUrl = DocsUrl

====
